---- MODULE Spec2Model ----
(***************************************************************************)
(* Channel pipelines of the concurrency notes (generator, multiply, add,   *)
(* repeat, repeatFn, toInt, primeFinder, fanIn, take) as goroutines that   *)
(* communicate over unbuffered channels and share one done channel.        *)
(*                                                                         *)
(* A goroutine is a process with a program counter:                        *)
(*   "recv"    blocked in a receive from its input (range c / <-c)         *)
(*   "select"  blocked in  select { case <-done: ; case out <- v: }        *)
(*   "return"  loop finished, deferred close(out) not yet run              *)
(*   "wait"    blocked in wg.Wait()                                        *)
(*   "exit"    returned, deferred calls run                                *)
(*   "none"    not started (or not part of the running program)            *)
(* An unbuffered send completes only together with a receive of another    *)
(* goroutine, so a send is one step of the sender and the receiver.        *)
(***************************************************************************)
EXTENDS Integers, Sequences, FiniteSets, TLC

VARIABLES cfg, pc, val, idx, i, closes, done, wg, out, takeRecvd, sentBag, rcvdBag,
          printed, buf, fetched, mu, waiting, queue, count, crowd

\* what only the examples of the sync package use: the holder of the mutex,
\* the goroutines suspended in c.Wait(), the queue, the shared counter, and
\* how many of the arithmetic goroutines are at each position
syVars == <<mu, waiting, queue, count, crowd>>

\* what only the smaller examples use: the lines written so far, the content
\* of the buffered channel, the outcomes of the http.Get calls so far, and
\* the state of the sync examples
exVars == <<printed, buf, fetched, mu, waiting, queue, count, crowd>>

vars == <<cfg, pc, val, idx, i, closes, done, wg, out, takeRecvd, sentBag, rcvdBag,
          printed, buf, fetched, mu, waiting, queue, count, crowd>>

\* ---------------------------------------------------------------- bounds
MaxFinders == 2
MaxNum == 2
MaxLen == 2
MaxSeedVal == 5
MaxHist == 2
MaxMult == 3
MaxOr == 5
MaxSegLen == 2

\* the zero value of interface{} that a receive from a closed channel yields
Nil == 0 - 1000

\* values rand.Intn hands to repeatFn: integer -= 1 makes 4 the prime
\* candidate 3 and 5 the composite candidate 4
FnValues == {4, 5}
SeedVals == 1..MaxSeedVal

\* ------------------------------------------------------------- processes
Src == <<"src", 0>>
ToInt == <<"toInt", 0>>
Stage(j) == <<"stage", j>>
PF(k) == <<"primeFinder", k>>
FW(k) == <<"multiplex", k>>
Closer == <<"closer", 0>>
Take == <<"take", 0>>
Main == <<"main", 0>>
CheckStatus == <<"checkStatus", 0>>
Or(L) == <<"or", L>>
DoWork == <<"doWork", 0>>
Canceller == <<"canceller", 0>>
Producer == <<"producer", 0>>
Handler == <<"handler", 0>>
\* the removeFromQueue goroutines, which are all alike, as holder of c.L
Remover == <<"removeFromQueue", 0>>
\* no goroutine: the holder of an unlocked mutex
NoProc == <<"nobody", 0>>

\* the example: multiply(add(multiply(generator(1, 2, 3, 4), 2), 1), 2)
NumStages == 3
ExampleSeed == <<1, 2, 3, 4>>
ExampleStages ==
  <<[op |-> "multiply", k |-> 2], [op |-> "add", k |-> 1], [op |-> "multiply", k |-> 2]>>

Finders == 1..MaxFinders
\* the Cond example: for i := 0; i < 10; i++, and for len(queue) == 2
QueueItems == 10
QueueLimit == 2
\* the Mutex example: for i := 0; i <= 5; i++
ArithLast == 5
\* the close(begin) example: for i := 0; i < 5; i++
NumWaiters == 5
\* each call of or that starts a goroutine passes on two channels fewer
OrLevels == 1..(MaxOr \div 2)
StageIds == 1..NumStages

Procs ==
  {Src, ToInt, Closer, Take, Main, CheckStatus} \cup {Stage(j) : j \in StageIds}
    \cup {PF(k) : k \in Finders} \cup {FW(k) : k \in Finders}
    \cup {Or(L) : L \in OrLevels} \cup {DoWork, Canceller, Producer, Handler}

\* -------------------------------------------------------------- channels
VS == <<"valueStream", 0>>
IS == <<"intStream", 0>>
PS(k) == <<"primeStream", k>>
MS == <<"multiplexedStream", 0>>
TS == <<"takeStream", 0>>
SC(j) == <<"stageStream", j>>
RS == <<"results", 0>>
TermCh == <<"terminated", 0>>
Input(j) == <<"channels", j>>
OrDone(L) == <<"orDone", L>>
Begin == <<"begin", 0>>
NoChan == <<"nil", 0>>

Chans ==
  {VS, IS, MS, TS, RS, TermCh, Begin} \cup {PS(k) : k \in Finders} \cup {SC(j) : j \in StageIds}
    \cup {Input(j) : j \in 1..MaxOr} \cup {OrDone(L) : L \in OrLevels}

closed(c) == closes[c] > 0

\* slip: every multiplex goroutine is started on the first channel,
\* go multiplex(channels[0])
InFirstChannel(p) ==
  CASE p[1] = "stage" -> IF p[2] = 1 THEN VS ELSE SC(p[2] - 1)
    [] p[1] = "toInt" -> IF cfg.prog = "conv" THEN TS ELSE VS
    [] p[1] = "primeFinder" -> IS
    [] p[1] = "multiplex" -> PS(1)
    [] p[1] = "take" -> IF cfg.prog = "fan" THEN MS ELSE VS
    [] p[1] = "main" -> IF cfg.prog = "chain" THEN SC(Len(cfg.stages))
                        ELSE IF cfg.prog = "conv" THEN IS
                        ELSE IF cfg.prog = "check" THEN RS
                        ELSE IF cfg.prog = "gen" THEN VS ELSE TS
    [] OTHER -> NoChan

\* the channel a goroutine receives from, by the composition in main
In(p) ==
  CASE p[1] = "stage" -> IF p[2] = 1 THEN VS ELSE SC(p[2] - 1)
    [] p[1] = "toInt" -> IF cfg.prog = "conv" THEN TS ELSE VS
    [] p[1] = "primeFinder" -> IS
    [] p[1] = "multiplex" -> PS(p[2])
    [] p[1] = "take" -> IF cfg.prog = "fan" THEN MS ELSE VS
    [] p[1] = "main" -> IF cfg.prog = "chain" THEN SC(Len(cfg.stages))
                        ELSE IF cfg.prog = "conv" THEN IS
                        ELSE IF cfg.prog = "check" THEN RS
                        ELSE IF cfg.prog = "gen" THEN VS ELSE TS
    [] OTHER -> NoChan

\* slip: primeStream made once and shared by all the finders
OutSharedPrimeStream(p) ==
  CASE p[1] = "src" -> IF cfg.prog = "fan" /\ cfg.src = "generator" THEN IS ELSE VS
    [] p[1] = "stage" -> SC(p[2])
    [] p[1] = "toInt" -> IS
    [] p[1] = "primeFinder" -> PS(1)
    [] p[1] = "multiplex" -> MS
    [] p[1] = "closer" -> MS
    [] p[1] = "take" -> TS
    [] p[1] = "checkStatus" -> RS
    [] p[1] = "doWork" -> TermCh
    [] p[1] = "producer" -> IS
    [] OTHER -> NoChan

\* the channel a goroutine makes, sends on and closes
Out(p) ==
  CASE p[1] = "src" -> IF cfg.prog = "fan" /\ cfg.src = "generator" THEN IS ELSE VS
    [] p[1] = "stage" -> SC(p[2])
    [] p[1] = "toInt" -> IS
    [] p[1] = "primeFinder" -> PS(p[2])
    [] p[1] = "multiplex" -> MS
    [] p[1] = "closer" -> MS
    [] p[1] = "take" -> TS
    [] p[1] = "checkStatus" -> RS
    [] p[1] = "doWork" -> TermCh
    [] p[1] = "producer" -> IS
    [] OTHER -> NoChan

\* goroutines blocked in a receive from channel c
Receivers(c) == {q \in Procs : pc[q] = "recv" /\ In(q) = c}

\* ------------------------------------------------------- stage functions
\* the inner loop of primeFinder: for divisor := integer - 1; divisor > 1; divisor--
RECURSIVE divisorLoop(_, _)
divisorLoop(integer, divisor) ==
  IF divisor > 1
    THEN IF integer % divisor = 0 THEN FALSE ELSE divisorLoop(integer, divisor - 1)
    ELSE TRUE

\* the value primeFinder tests and sends: integer -= 1
primeCandidate(v) == v - 1

prime(integer) == divisorLoop(integer, integer - 1)

\* slip: the stage applies the other operation
transformSwapped(stage, v) ==
  IF stage.op = "multiply" THEN v + stage.k ELSE v * stage.k

\* the value a multiply / add stage sends for the value i it received
transform(stage, v) ==
  IF stage.op = "multiply" THEN v * stage.k ELSE v + stage.k

\* what a goroutine holds while it is not at a send: its loop variable is
\* scoped to one iteration
NoVal == 0

\* an interface{} value whose dynamic type is not int, such as the string "a"
NotAnInt == 0 - 2000

\* what the receiving goroutine q holds after it received v
RecvVal(q, v) ==
  CASE q[1] = "stage" -> transform(cfg.stages[q[2]], v)
    [] q[1] = "primeFinder" ->
         IF prime(primeCandidate(v)) THEN primeCandidate(v) ELSE NoVal
    [] q[1] = "main" -> NoVal
    [] OTHER -> v

\* v.(int): the assertion holds for an int; for nil and for a value of any
\* other dynamic type it panics
IsInt(v) == v \notin {Nil, NotAnInt}

\* where the receiving goroutine q is after it received v; toInt evaluates
\* the operand v.(int) of its send case on entry to the select
RecvPc(q, v) ==
  CASE q[1] = "primeFinder" -> IF prime(primeCandidate(v)) THEN "select" ELSE "recv"
    [] q[1] = "toInt" -> IF IsInt(v) THEN "select" ELSE "panic"
    [] q[1] = "main" -> "recv"
    [] OTHER -> "select"

\* bag arithmetic on the bounded histories
BagAdd(b, v) ==
  IF v \in DOMAIN b THEN [b EXCEPT ![v] = @ + 1] ELSE b @@ (v :> 1)

BagDel(b, v) ==
  IF b[v] = 1 THEN [x \in DOMAIN b \ {v} |-> b[x]] ELSE [b EXCEPT ![v] = @ - 1]

\* how many of the goroutines that are all alike are at position pos
Copies(pos) == IF pos \in DOMAIN crowd THEN crowd[pos] ELSE 0

\* one of them goes from position from to position to
Move(from, to) == BagAdd(BagDel(crowd, from), to)

BagSize(b) == LET RECURSIVE Sum(_)
                  Sum(S) == IF S = {} THEN 0
                            ELSE LET x == CHOOSE y \in S : TRUE
                                 IN b[x] + Sum(S \ {x})
              IN Sum(DOMAIN b)

\* One unbuffered channel operation: sender p, at its select, hands v to the
\* receiver q; p goes on at ppc holding pval.  sentBag and rcvdBag record the
\* first cfg.hist values sent on randIntStream and received by the finders.
Xfer(p, ppc, pval, q, v) ==
  /\ pc' = [pc EXCEPT ![p] = ppc, ![q] = RecvPc(q, v)]
  /\ val' = [val EXCEPT ![p] = pval, ![q] = RecvVal(q, v)]
  /\ out' = IF q = Main THEN Append(out, v) ELSE out
  /\ takeRecvd' = IF q = Take THEN Append(takeRecvd, v) ELSE takeRecvd
  /\ sentBag' = IF Out(p) = IS /\ BagSize(sentBag) < cfg.hist
                  THEN BagAdd(sentBag, v) ELSE sentBag
  /\ rcvdBag' = IF q[1] = "primeFinder" /\ BagSize(sentBag) < cfg.hist
                  THEN BagAdd(rcvdBag, v) ELSE rcvdBag

\* slip: the loop test written i <= num
TakeContinuesLE(n) == n <= cfg.num

\* take: the loop test i < num
TakeContinues(n) == n < cfg.num

\* slip: the deferred close(Out(p)) left out
ReturnNoClose(p) ==
  /\ pc' = [pc EXCEPT ![p] = "exit"]
  /\ closes' = closes

\* return of a goroutine whose deferred call is close(Out(p))
ReturnClose(p) ==
  /\ pc' = [pc EXCEPT ![p] = "exit"]
  /\ closes' = [closes EXCEPT ![Out(p)] = @ + 1]


\* --------------------------------------------------------------- sources
\* generator: case intStream <- i, for the next of the integers
GeneratorSend ==
  /\ cfg.src = "generator"
  /\ pc[Src] = "select"
  /\ ~closed(Out(Src))
  /\ \E q \in Receivers(Out(Src)) :
       Xfer(Src, IF idx + 1 > Len(cfg.seed) THEN "return" ELSE "select",
            val[Src], q, cfg.seed[idx])
  /\ idx' = idx + 1
  /\ UNCHANGED <<cfg, i, closes, done, wg>>
  /\ UNCHANGED exVars

\* generator: case <-done: return, and the deferred close(intStream)
GeneratorDone ==
  /\ cfg.src = "generator"
  /\ pc[Src] = "select"
  /\ done
  /\ ReturnClose(Src)
  /\ UNCHANGED <<cfg, val, idx, i, done, wg, out, takeRecvd, sentBag, rcvdBag>>
  /\ UNCHANGED exVars

\* generator: the range over integers is exhausted, deferred close(intStream)
GeneratorReturn ==
  /\ cfg.src = "generator"
  /\ pc[Src] = "return"
  /\ ReturnClose(Src)
  /\ UNCHANGED <<cfg, val, idx, i, done, wg, out, takeRecvd, sentBag, rcvdBag>>
  /\ UNCHANGED exVars

\* repeatFn: case valueStream <- fn(), fn() being rand.Intn
RepeatFnSend ==
  /\ cfg.src = "repeatFn"
  /\ pc[Src] = "select"
  /\ ~closed(Out(Src))
  /\ \E q \in Receivers(Out(Src)), nv \in FnValues :
       Xfer(Src, "select", NoVal, q, nv)
  /\ UNCHANGED <<cfg, idx, i, closes, done, wg>>
  /\ UNCHANGED exVars

\* repeatFn: case <-done: return, and the deferred close(valueStream)
RepeatFnDone ==
  /\ cfg.src = "repeatFn"
  /\ pc[Src] = "select"
  /\ done
  /\ ReturnClose(Src)
  /\ UNCHANGED <<cfg, val, idx, i, done, wg, out, takeRecvd, sentBag, rcvdBag>>
  /\ UNCHANGED exVars

\* repeat: case valueStream <- v, for v := range values inside for { }
RepeatSend ==
  /\ cfg.src = "repeat"
  /\ pc[Src] = "select"
  /\ ~closed(Out(Src))
  /\ \E q \in Receivers(Out(Src)) :
       Xfer(Src, "select", NoVal, q, cfg.seed[idx])
  /\ idx' = IF idx = Len(cfg.seed) THEN 1 ELSE idx + 1
  /\ UNCHANGED <<cfg, i, closes, done, wg>>
  /\ UNCHANGED exVars

\* repeat: case <-done: return, and the deferred close(valueStream)
RepeatDone ==
  /\ cfg.src = "repeat"
  /\ pc[Src] = "select"
  /\ done
  /\ ReturnClose(Src)
  /\ UNCHANGED <<cfg, val, idx, i, done, wg, out, takeRecvd, sentBag, rcvdBag>>
  /\ UNCHANGED exVars

\* ------------------------------------------------- multiply / add stages
\* multiply, add: case multipliedStream <- i * multiplier (addedStream <- i + additive)
StageSend(j) ==
  /\ pc[Stage(j)] = "select"
  /\ ~closed(Out(Stage(j)))
  /\ \E q \in Receivers(Out(Stage(j))) :
       Xfer(Stage(j), "recv", NoVal, q, val[Stage(j)])
  /\ UNCHANGED <<cfg, idx, i, closes, done, wg>>
  /\ UNCHANGED exVars

\* multiply, add: case <-done: return, and the deferred close of the output
StageDone(j) ==
  /\ pc[Stage(j)] = "select"
  /\ done
  /\ ReturnClose(Stage(j))
  /\ UNCHANGED <<cfg, val, idx, i, done, wg, out, takeRecvd, sentBag, rcvdBag>>
  /\ UNCHANGED exVars

\* slip: the stage returns, and closes its output, after its first send
StageRangeEndEarly(j) ==
  /\ pc[Stage(j)] = "recv"
  /\ closed(In(Stage(j))) \/ Len(out) > 0
  /\ ReturnClose(Stage(j))
  /\ UNCHANGED <<cfg, val, idx, i, done, wg, out, takeRecvd, sentBag, rcvdBag>>
  /\ UNCHANGED exVars

\* multiply, add: range intStream ends because intStream is closed
StageRangeEnd(j) ==
  /\ pc[Stage(j)] = "recv"
  /\ closed(In(Stage(j)))
  /\ ReturnClose(Stage(j))
  /\ UNCHANGED <<cfg, val, idx, i, done, wg, out, takeRecvd, sentBag, rcvdBag>>
  /\ UNCHANGED exVars

\* ------------------------------------------------------- toInt (fan-out)
\* slip: a value sent on randIntStream reaches every finder waiting for one
ToIntSendBroadcast ==
  /\ pc[ToInt] = "select"
  /\ ~closed(Out(ToInt))
  /\ Receivers(Out(ToInt)) # {}
  /\ LET Q == Receivers(Out(ToInt))
         v == val[ToInt]
     IN /\ pc' = [p \in Procs |-> IF p = ToInt THEN "recv"
                                  ELSE IF p \in Q THEN RecvPc(p, v) ELSE pc[p]]
        /\ val' = [p \in Procs |-> IF p = ToInt THEN NoVal
                                   ELSE IF p \in Q THEN RecvVal(p, v) ELSE val[p]]
        /\ sentBag' = IF BagSize(sentBag) < cfg.hist
                        THEN BagAdd(sentBag, v) ELSE sentBag
        /\ rcvdBag' = IF BagSize(sentBag) < cfg.hist
                        THEN [BagAdd(rcvdBag, v) EXCEPT ![v] = @ + Cardinality(Q) - 1]
                        ELSE rcvdBag
  /\ UNCHANGED <<cfg, idx, i, closes, done, wg, out, takeRecvd>>
  /\ UNCHANGED exVars

\* toInt: case intStream <- v.(int)
ToIntSend ==
  /\ pc[ToInt] = "select"
  /\ ~closed(Out(ToInt))
  /\ \E q \in Receivers(Out(ToInt)) :
       Xfer(ToInt, "recv", NoVal, q, val[ToInt])
  /\ UNCHANGED <<cfg, idx, i, closes, done, wg>>
  /\ UNCHANGED exVars

\* toInt: case <-done: return, and the deferred close(intStream)
ToIntDone ==
  /\ pc[ToInt] = "select"
  /\ done
  /\ ReturnClose(ToInt)
  /\ UNCHANGED <<cfg, val, idx, i, done, wg, out, takeRecvd, sentBag, rcvdBag>>
  /\ UNCHANGED exVars

\* toInt: v.(int) panics; the deferred close(intStream) runs while the panic
\* unwinds, nothing recovers it, and the program ends with every goroutine
ToIntPanic ==
  /\ pc[ToInt] = "panic"
  /\ pc' = [p \in Procs |-> IF pc[p] = "none" THEN "none" ELSE "crashed"]
  /\ closes' = [closes EXCEPT ![Out(ToInt)] = @ + 1]
  /\ UNCHANGED <<cfg, val, idx, i, done, wg, out, takeRecvd, sentBag, rcvdBag>>
  /\ UNCHANGED exVars

\* toInt: range valueStream ends because valueStream is closed
ToIntRangeEnd ==
  /\ pc[ToInt] = "recv"
  /\ closed(In(ToInt))
  /\ ReturnClose(ToInt)
  /\ UNCHANGED <<cfg, val, idx, i, done, wg, out, takeRecvd, sentBag, rcvdBag>>
  /\ UNCHANGED exVars

\* ----------------------------------------------------------- primeFinder
\* The fan-out over a generator started with cfg.hist > 0 keeps in queue the
\* history of the channels merged by fanIn: <<"in", c, v>> when channel c
\* delivers v to a multiplex goroutine, <<"out", c, v>> when a value that
\* came from c has been sent on multiplexedStream.
KeepsLog == cfg.prog = "fan" /\ cfg.src = "generator" /\ cfg.hist > 0

Logged(dir, c, v) == IF KeepsLog THEN Append(queue, <<dir, c, v>>) ELSE queue

\* primeFinder: case primeStream <- integer
PrimeFinderSend(k) ==
  /\ pc[PF(k)] = "select"
  /\ ~closed(Out(PF(k)))
  /\ \E q \in Receivers(Out(PF(k))) :
       Xfer(PF(k), "recv", NoVal, q, val[PF(k)])
  /\ queue' = Logged("in", Out(PF(k)), val[PF(k)])
  /\ UNCHANGED <<cfg, idx, i, closes, done, wg>>
  /\ UNCHANGED <<printed, buf, fetched, mu, waiting, count, crowd>>

\* slip: primeFinder sends without a case <-done
PrimeFinderNoDoneCase(k) ==
  /\ FALSE
  /\ UNCHANGED vars

\* primeFinder: case <-done: return, and the deferred close(primeStream)
PrimeFinderDone(k) ==
  /\ pc[PF(k)] = "select"
  /\ done
  /\ ReturnClose(PF(k))
  /\ UNCHANGED <<cfg, val, idx, i, done, wg, out, takeRecvd, sentBag, rcvdBag>>
  /\ UNCHANGED exVars

\* primeFinder: range intStream ends because intStream is closed
PrimeFinderRangeEnd(k) ==
  /\ pc[PF(k)] = "recv"
  /\ closed(In(PF(k)))
  /\ ReturnClose(PF(k))
  /\ UNCHANGED <<cfg, val, idx, i, done, wg, out, takeRecvd, sentBag, rcvdBag>>
  /\ UNCHANGED exVars

\* ----------------------------------------------------------------- fanIn
\* slip: the counter is set one short of len(channels)
FanInAddShort ==
  /\ pc[Main] = "fanIn"
  /\ wg' = wg + cfg.nf - 1
  /\ pc' = [pc EXCEPT ![Main] = "spawn"]
  /\ UNCHANGED <<cfg, val, idx, i, closes, done, out, takeRecvd, sentBag, rcvdBag>>
  /\ UNCHANGED exVars

\* fanIn: wg.Add(len(channels)), before any multiplex goroutine is started
FanInAdd ==
  /\ pc[Main] = "fanIn"
  /\ wg' = wg + cfg.nf
  /\ pc' = [pc EXCEPT ![Main] = "spawn"]
  /\ UNCHANGED <<cfg, val, idx, i, closes, done, out, takeRecvd, sentBag, rcvdBag>>
  /\ UNCHANGED exVars

\* fanIn: go multiplex(c) for every channel and the goroutine that waits and
\* closes; then main starts take and ranges over its stream
FanInSpawn ==
  /\ pc[Main] = "spawn"
  /\ pc' = [p \in Procs |->
              IF p[1] = "multiplex" /\ p[2] <= cfg.nf THEN "recv"
              ELSE IF p = Closer THEN "wait"
              ELSE IF p = Take THEN (IF TakeContinues(i) THEN "recv" ELSE "return")
              ELSE IF p = Main THEN "recv"
              ELSE pc[p]]
  /\ UNCHANGED <<cfg, val, idx, i, closes, done, wg, out, takeRecvd, sentBag, rcvdBag>>
  /\ UNCHANGED exVars

\* slip: a default case in the select drops the value when nobody receives
MultiplexSendLossy(k) ==
  /\ pc[FW(k)] = "select"
  /\ ~closed(Out(FW(k)))
  /\ \/ \E q \in Receivers(Out(FW(k))) :
          Xfer(FW(k), "recv", NoVal, q, val[FW(k)])
     \/ /\ Receivers(Out(FW(k))) = {}
        /\ pc' = [pc EXCEPT ![FW(k)] = "recv"]
        /\ val' = [val EXCEPT ![FW(k)] = NoVal]
        /\ UNCHANGED <<out, takeRecvd, sentBag, rcvdBag>>
  /\ UNCHANGED <<cfg, idx, i, closes, done, wg>>
  /\ UNCHANGED exVars

\* multiplex: case multiplexedStream <- i
MultiplexSend(k) ==
  /\ pc[FW(k)] = "select"
  /\ ~closed(Out(FW(k)))
  /\ \E q \in Receivers(Out(FW(k))) :
       Xfer(FW(k), "recv", NoVal, q, val[FW(k)])
  /\ queue' = Logged("out", In(FW(k)), val[FW(k)])
  /\ UNCHANGED <<cfg, idx, i, closes, done, wg>>
  /\ UNCHANGED <<printed, buf, fetched, mu, waiting, count, crowd>>

\* return of a multiplex goroutine: the deferred wg.Done()
MultiplexReturn(k) ==
  /\ pc' = [pc EXCEPT ![FW(k)] = "exit"]
  /\ wg' = wg - 1

\* slip: multiplex sends without a case <-done
MultiplexNoDoneCase(k) ==
  /\ FALSE
  /\ UNCHANGED vars

\* multiplex: case <-done: return
MultiplexDone(k) ==
  /\ pc[FW(k)] = "select"
  /\ done
  /\ MultiplexReturn(k)
  /\ UNCHANGED <<cfg, val, idx, i, closes, done, out, takeRecvd, sentBag, rcvdBag>>
  /\ UNCHANGED exVars

\* multiplex: range c ends because c is closed
MultiplexRangeEnd(k) ==
  /\ pc[FW(k)] = "recv"
  /\ closed(In(FW(k)))
  /\ MultiplexReturn(k)
  /\ UNCHANGED <<cfg, val, idx, i, closes, done, out, takeRecvd, sentBag, rcvdBag>>
  /\ UNCHANGED exVars

\* slip: the goroutine waits but close(multiplexedStream) is left out
CloserForgetsClose ==
  /\ pc[Closer] = "wait"
  /\ wg = 0
  /\ pc' = [pc EXCEPT ![Closer] = "exit"]
  /\ UNCHANGED <<cfg, val, idx, i, closes, done, wg, out, takeRecvd, sentBag, rcvdBag>>
  /\ UNCHANGED exVars

\* slip: close(multiplexedStream) without wg.Wait()
CloserCloseNoWait ==
  /\ pc[Closer] = "wait"
  /\ ReturnClose(Closer)
  /\ UNCHANGED <<cfg, val, idx, i, done, wg, out, takeRecvd, sentBag, rcvdBag>>
  /\ UNCHANGED exVars

\* fanIn: wg.Wait() returns when the counter is 0, then close(multiplexedStream)
CloserClose ==
  /\ pc[Closer] = "wait"
  /\ wg = 0
  /\ ReturnClose(Closer)
  /\ UNCHANGED <<cfg, val, idx, i, done, wg, out, takeRecvd, sentBag, rcvdBag>>
  /\ UNCHANGED exVars

\* ------------------------------------------------------------------ take
\* take: case takeStream <- <-valueStream, the send of the value received;
\* then i++ and the loop test i < num
TakeSend ==
  /\ pc[Take] = "select"
  /\ ~closed(Out(Take))
  /\ \E q \in Receivers(Out(Take)) :
       Xfer(Take, IF TakeContinues(i + 1) THEN "recv" ELSE "return",
            NoVal, q, val[Take])
  /\ i' = i + 1
  /\ UNCHANGED <<cfg, idx, closes, done, wg>>
  /\ UNCHANGED exVars

\* take: the operand <-valueStream of the send case is evaluated on entry to
\* the select; on a closed valueStream it yields the zero value at once
TakeRecvClosed ==
  /\ pc[Take] = "recv"
  /\ closed(In(Take))
  /\ pc' = [pc EXCEPT ![Take] = "select"]
  /\ val' = [val EXCEPT ![Take] = Nil]
  /\ takeRecvd' = Append(takeRecvd, Nil)
  /\ UNCHANGED <<cfg, idx, i, closes, done, wg, out, sentBag, rcvdBag>>
  /\ UNCHANGED exVars

\* slip: case <-done closes takeStream itself, and the deferred close runs too
TakeDoneCloseTwice ==
  /\ pc[Take] = "select"
  /\ done
  /\ pc' = [pc EXCEPT ![Take] = "exit"]
  /\ closes' = [closes EXCEPT ![Out(Take)] = @ + 2]
  /\ UNCHANGED <<cfg, val, idx, i, done, wg, out, takeRecvd, sentBag, rcvdBag>>
  /\ UNCHANGED exVars

\* slip: take sends without a case <-done
TakeNoDoneCase ==
  /\ FALSE
  /\ UNCHANGED vars

\* take: case <-done: return, and the deferred close(takeStream)
TakeDone ==
  /\ pc[Take] = "select"
  /\ done
  /\ ReturnClose(Take)
  /\ UNCHANGED <<cfg, val, idx, i, done, wg, out, takeRecvd, sentBag, rcvdBag>>
  /\ UNCHANGED exVars

\* take: the loop ends at i = num, deferred close(takeStream)
TakeReturn ==
  /\ pc[Take] = "return"
  /\ ReturnClose(Take)
  /\ UNCHANGED <<cfg, val, idx, i, done, wg, out, takeRecvd, sentBag, rcvdBag>>
  /\ UNCHANGED exVars

\* ------------------------------------------------------------------ main
\* main: for ... := range over the last stream ends because it is closed
MainRangeEnd ==
  /\ pc[Main] = "recv"
  /\ closed(In(Main))
  /\ pc' = [pc EXCEPT ![Main] = "exit"]
  /\ UNCHANGED <<cfg, val, idx, i, closes, done, wg, out, takeRecvd, sentBag, rcvdBag>>
  /\ UNCHANGED exVars

\* close(done): main's deferred close when it returns; the stages take done
\* as a parameter, so its owner may also close it at any earlier point
CloseDone ==
  /\ ~done
  /\ done' = TRUE
  /\ UNCHANGED <<cfg, pc, val, idx, i, closes, wg, out, takeRecvd, sentBag, rcvdBag>>
  /\ UNCHANGED exVars

\* ------------------------------------------- the fan-out, fan-in program
\* main: randIntStream := toInt(done, repeatFn(done, rand)); numFinders
\* primeFinder goroutines on randIntStream; take(done, fanIn(...), num)
FanConfigs ==
  [prog : {"fan"}, src : {"repeatFn"}, seed : {<<>>}, stages : {<<>>},
   num : 1..MaxNum, nf : 1..MaxFinders, hist : {0}]

FanPc(c) ==
  [p \in Procs |->
     IF p = Src THEN "select"
     ELSE IF p = ToInt THEN "recv"
     ELSE IF p[1] = "primeFinder" /\ p[2] <= c.nf THEN "recv"
     ELSE IF p = Main THEN "fanIn"
     ELSE "none"]

\* the state of everything but cfg and pc when main has started its goroutines
Fresh ==
  /\ val = [p \in Procs |-> NoVal]
  /\ idx = 1
  /\ i = 0
  /\ closes = [c \in Chans |-> 0]
  /\ done = FALSE
  /\ wg = 0
  /\ out = <<>>
  /\ takeRecvd = <<>>
  /\ sentBag = <<>>
  /\ rcvdBag = <<>>
  /\ printed = <<>>
  /\ buf = <<>>
  /\ fetched = <<>>
  /\ mu = NoProc
  /\ waiting = {}
  /\ queue = <<>>
  /\ count = 0
  /\ crowd = <<>>

Init ==
  /\ cfg \in FanConfigs
  /\ pc = FanPc(cfg)
  /\ Fresh

Next ==
  \/ RepeatFnSend
  \/ RepeatFnDone
  \/ ToIntSend
  \/ ToIntDone
  \/ ToIntRangeEnd
  \/ \E k \in Finders : PrimeFinderSend(k)
  \/ \E k \in Finders : PrimeFinderDone(k)
  \/ \E k \in Finders : PrimeFinderRangeEnd(k)
  \/ FanInAdd
  \/ FanInSpawn
  \/ \E k \in Finders : MultiplexSend(k)
  \/ \E k \in Finders : MultiplexDone(k)
  \/ \E k \in Finders : MultiplexRangeEnd(k)
  \/ CloserClose
  \/ TakeSend
  \/ TakeRecvClosed
  \/ TakeDone
  \/ TakeReturn
  \/ MainRangeEnd
  \/ CloseDone

Spec == Init /\ [][Next]_vars


\* ---------------------------------- the fan-out program with histories
\* the same program, recording the first MaxHist transfers on randIntStream
HistInit ==
  /\ cfg \in [prog : {"fan"}, src : {"repeatFn"}, seed : {<<>>}, stages : {<<>>},
              num : 1..MaxNum, nf : 1..MaxFinders, hist : {MaxHist}]
  /\ pc = FanPc(cfg)
  /\ Fresh

HistSpec == HistInit /\ [][Next]_vars

\* -------------------------------------- fan-out over a finite generator
\* a generator of integers fanned out to the primeFinders, take of fanIn
SrcPc(c) == IF c.src = "generator" /\ Len(c.seed) = 0 THEN "return" ELSE "select"

Seeds == UNION {[1..n -> SeedVals] : n \in 0..MaxLen}

FiniteInit ==
  /\ cfg \in [prog : {"fan"}, src : {"generator"}, seed : Seeds, stages : {<<>>},
              num : 1..MaxNum, nf : 1..MaxFinders, hist : {0}]
  /\ pc = [FanPc(cfg) EXCEPT ![Src] = SrcPc(cfg), ![ToInt] = "none"]
  /\ Fresh

FiniteNext ==
  \/ GeneratorSend
  \/ GeneratorDone
  \/ GeneratorReturn
  \/ \E k \in Finders : PrimeFinderSend(k)
  \/ \E k \in Finders : PrimeFinderDone(k)
  \/ \E k \in Finders : PrimeFinderRangeEnd(k)
  \/ FanInAdd
  \/ FanInSpawn
  \/ \E k \in Finders : MultiplexSend(k)
  \/ \E k \in Finders : MultiplexDone(k)
  \/ \E k \in Finders : MultiplexRangeEnd(k)
  \/ CloserClose
  \/ TakeSend
  \/ TakeRecvClosed
  \/ TakeDone
  \/ TakeReturn
  \/ MainRangeEnd
  \/ CloseDone

FiniteSpec == FiniteInit /\ [][FiniteNext]_vars

\* ------------------------------------------------ take over one source
\* for num := range take(done, repeatFn(done, rand), 10), take(done,
\* repeat(done, "a"), b.N), and take over a generator that runs dry

TakeConfigs ==
  {c \in [prog : {"take"}, src : {"generator", "repeat", "repeatFn"}, seed : Seeds,
          stages : {<<>>}, num : 1..MaxNum, nf : {0}, hist : {0}] :
     /\ c.src = "repeatFn" => c.seed = <<>>
     /\ c.src = "repeat" => c.seed # <<>>}

TakePc(c) ==
  [p \in Procs |->
     IF p = Src THEN SrcPc(c)
     ELSE IF p = Take THEN "recv"
     ELSE IF p = Main THEN "recv"
     ELSE "none"]

TakeInit ==
  /\ cfg \in TakeConfigs
  /\ pc = TakePc(cfg)
  /\ Fresh

TakeNext ==
  \/ GeneratorSend
  \/ GeneratorDone
  \/ GeneratorReturn
  \/ RepeatSend
  \/ RepeatDone
  \/ RepeatFnSend
  \/ RepeatFnDone
  \/ TakeSend
  \/ TakeRecvClosed
  \/ TakeDone
  \/ TakeReturn
  \/ MainRangeEnd
  \/ CloseDone

TakeSpec == TakeInit /\ [][TakeNext]_vars

\* ------------------------------------------------- the channel pipeline
\* generator -> multiply -> add -> multiply -> range in main, and the single
\* stage multiply(done, generator(done, s...), m)
ChainConfigs ==
  [prog : {"chain"}, src : {"generator"}, seed : Seeds \cup {ExampleSeed},
   stages : {<<[op |-> "multiply", k |-> m]>> : m \in 2..MaxMult} \cup {ExampleStages},
   num : {0}, nf : {0}, hist : {0}]

ChainPc(c) ==
  [p \in Procs |->
     IF p = Src THEN SrcPc(c)
     ELSE IF p[1] = "stage" /\ p[2] <= Len(c.stages) THEN "recv"
     ELSE IF p = Main THEN "recv"
     ELSE "none"]

ChainInit ==
  /\ cfg \in ChainConfigs
  /\ pc = ChainPc(cfg)
  /\ Fresh

ChainNext ==
  \/ GeneratorSend
  \/ GeneratorDone
  \/ GeneratorReturn
  \/ \E j \in StageIds : StageSend(j)
  \/ \E j \in StageIds : StageDone(j)
  \/ \E j \in StageIds : StageRangeEnd(j)
  \/ MainRangeEnd
  \/ CloseDone

ChainSpec == ChainInit /\ [][ChainNext]_vars

\* Every goroutine that can take a step is eventually scheduled, and select
\* chooses among its ready cases pseudo-randomly, so no ready case is passed
\* over forever.  Nothing obliges the owner of done to close it.
Fairness ==
  /\ WF_vars(RepeatFnSend) /\ WF_vars(RepeatFnDone)
  /\ WF_vars(ToIntSend) /\ WF_vars(ToIntDone) /\ WF_vars(ToIntRangeEnd)
  /\ \A k \in Finders :
       /\ WF_vars(PrimeFinderSend(k)) /\ WF_vars(PrimeFinderDone(k))
       /\ WF_vars(PrimeFinderRangeEnd(k))
       /\ WF_vars(MultiplexSend(k)) /\ WF_vars(MultiplexDone(k))
       /\ WF_vars(MultiplexRangeEnd(k))
  /\ WF_vars(FanInAdd) /\ WF_vars(FanInSpawn) /\ WF_vars(CloserClose)
  /\ WF_vars(TakeSend) /\ WF_vars(TakeRecvClosed) /\ WF_vars(TakeDone)
  /\ WF_vars(TakeReturn) /\ WF_vars(MainRangeEnd)

FairSpec == Spec /\ Fairness

\* ------------------------------------------------------------ predicates
\* the goroutines of the fan-out pipeline, main excluded
Pipeline ==
  {Src, ToInt, Closer, Take} \cup {PF(k) : k \in 1..cfg.nf} \cup {FW(k) : k \in 1..cfg.nf}

\* the goroutines upstream of take
Upstream == Pipeline \ {Take, Closer}

Streams == {VS, IS, MS, TS} \cup {PS(k) : k \in 1..cfg.nf}

Terminated(p) == pc[p] = "exit"

AllTerminated ==
  /\ \A p \in Pipeline : Terminated(p)
  /\ \A c \in Streams : closed(c)

\* C1: once done is closed, every goroutine of the fan-out pipeline
\* (repeatFn, toInt, the primeFinders, the multiplex forwarders, the closer
\* of fanIn, take) eventually returns and every stream is eventually closed.
C1_CancelTerminates == done ~> AllTerminated

\* done was closed while the whole pipeline was running and blocked
\* the pipeline was cancelled before take had its num values, and has ended
C1_Witness == done /\ AllTerminated /\ Len(out) < cfg.num /\ cfg.nf = MaxFinders


IsPrefix(s, t) == Len(s) <= Len(t) /\ \A j \in 1..Len(s) : s[j] = t[j]

Range(s) == {s[j] : j \in 1..Len(s)}

InfiniteSrc == cfg.src \in {"repeat", "repeatFn"}

\* C2: with done open and a source that never runs dry, take hands on the
\* values it received, in the order received, and when it closes takeStream
\* it has sent exactly num values, all of them values of the source.
C2_TakeExactlyNum ==
  (InfiniteSrc /\ ~done) =>
    /\ IsPrefix(out, takeRecvd)
    /\ \A j \in 1..Len(takeRecvd) :
         IF cfg.src = "repeat"
           THEN takeRecvd[j] = cfg.seed[((j - 1) % Len(cfg.seed)) + 1]
           ELSE takeRecvd[j] \in FnValues
    /\ closed(TS) => (out = takeRecvd /\ Len(out) = cfg.num)

\* take has closed takeStream after num values of a repeating source
C2_Witness ==
  /\ cfg.src = "repeat" /\ Len(cfg.seed) = MaxLen /\ cfg.num = MaxNum
  /\ ~done /\ closed(TS) /\ Len(out) = cfg.num

\* C3: with done open and a generator that is closed after k < num values,
\* take emits exactly those k values, nothing the source did not produce,
\* and closes takeStream.
C3_TakeFiniteSource ==
  (cfg.prog = "take" /\ cfg.src = "generator" /\ ~done /\ Len(cfg.seed) < cfg.num) =>
    /\ \A j \in 1..Len(out) : out[j] \in Range(cfg.seed)
    /\ closed(TS) => out = cfg.seed

\* C4: multiplexedStream is never closed while one of the finders' channels
\* is still open, cancellation included.
C4_MergedNeverClosedEarly ==
  closed(MS) => \A k \in 1..cfg.nf : closed(PS(k))

\* C4 as amended: multiplexedStream is closed only after every multiplex
\* forwarder has returned; while done is open, that means after every
\* finder's channel has been closed.
C4_MergedAfterForwarders ==
  closed(MS) =>
    \A k \in 1..cfg.nf : Terminated(FW(k)) /\ (~done => closed(PS(k)))

\* fanIn closed its stream after the generator ran dry, done still open
C4_Witness ==
  /\ closed(MS) /\ ~done /\ cfg.nf = MaxFinders /\ Len(cfg.seed) = MaxLen

\* C5: close(multiplexedStream) runs at most once, only when the WaitGroup
\* counter is 0 and every forwarder has returned; the counter, set before the
\* forwarders start, is the number of forwarders that have not returned; no
\* forwarder is at a send on the closed stream.
C5_CloseOnceAfterForwarders ==
  /\ closes[MS] <= 1
  /\ closed(MS) => (wg = 0 /\ \A k \in 1..cfg.nf : Terminated(FW(k)))
  /\ pc[Main] # "fanIn" =>
       wg = Cardinality({k \in 1..cfg.nf : ~Terminated(FW(k))})
  /\ pc[Closer] = "exit" <=> closes[MS] = 1

\* the closer has closed the stream of MaxFinders forwarders
C5_Witness == closes[MS] = 1 /\ cfg.nf = MaxFinders /\ Len(out) > 0

\* goroutines blocked in the send case of their select on channel c
Senders(c) == {p \in Procs : pc[p] = "select" /\ Out(p) = c}

\* the stages of the fan-out pipeline: everything but the closer of fanIn
Stages == Pipeline \ {Closer}

\* the case <-done of the select that goroutine p is blocked in
DoneCase(p) ==
  \/ p = Src /\ (RepeatFnDone \/ RepeatDone \/ GeneratorDone)
  \/ p = ToInt /\ ToIntDone
  \/ p[1] = "primeFinder" /\ PrimeFinderDone(p[2])
  \/ p[1] = "multiplex" /\ MultiplexDone(p[2])
  \/ p = Take /\ TakeDone

TakeFinished == Terminated(Take) /\ Len(out) = cfg.num

UpstreamTerminated == \A p \in Upstream : Terminated(p)

\* C7: once take has emitted its num-th value and closed takeStream, every
\* upstream producer eventually returns, whether or not done is closed.
C7_TakeStopsUpstream == TakeFinished ~> UpstreamTerminated

\* C7 as amended: no upstream producer returns while done is open; once take
\* has finished and done is closed, every upstream producer returns.
C7_TakeThenDoneStopsUpstream ==
  /\ [](~done => \A p \in Upstream : ~Terminated(p))
  /\ (TakeFinished /\ done) ~> UpstreamTerminated

\* take finished with its num values and, done closed, upstream has returned
C7_Witness == TakeFinished /\ done /\ UpstreamTerminated /\ cfg.nf = MaxFinders

\* C8: with done open, multiply over a generator yields seed[j] * multiplier
\* in order, one value per seed value, and generator(1, 2, 3, 4) through
\* multiply 2, add 1, multiply 2 yields 6, 10, 14, 18.
C8_ChainOrder ==
  ~done =>
    /\ Len(cfg.stages) = 1 =>
         /\ IsPrefix(out, [j \in 1..Len(cfg.seed) |-> cfg.seed[j] * cfg.stages[1].k])
         /\ Terminated(Main) => Len(out) = Len(cfg.seed)
    /\ (cfg.seed = ExampleSeed /\ cfg.stages = ExampleStages) =>
         /\ IsPrefix(out, <<6, 10, 14, 18>>)
         /\ Terminated(Main) => Len(out) = 4

\* main has drained the example pipeline
C8_Witness ==
  /\ ~done /\ Terminated(Main)
  /\ cfg.seed = ExampleSeed /\ cfg.stages = ExampleStages
  /\ out = <<6, 10, 14, 18>>

IsPrimeNumber(n) == n > 1 /\ \A d \in 2..(n - 1) : n % d # 0

\* C9: a primeFinder emits only prime members of its input: no non-prime
\* value and no value that was not in the input.
C9_PrimeFinderEmitsPrimes ==
  \A k \in 1..cfg.nf :
    pc[PF(k)] = "select" =>
      IsPrimeNumber(val[PF(k)]) /\ val[PF(k)] \in Range(cfg.seed)

RECURSIVE SeqBag(_)
SeqBag(s) == IF s = <<>> THEN <<>> ELSE BagAdd(SeqBag(Tail(s)), Head(s))

NotNil(v) == v # Nil

\* what one primeFinder alone sends for the input sequence seed, in order
singleFinderOutput(seed) ==
  LET candidates == [j \in 1..Len(seed) |-> primeCandidate(seed[j])]
  IN SelectSeq(candidates, prime)

\* C11: with done open, when fanIn's stream has been closed the values read
\* from it are, as a multiset, the values a single primeFinder sends for the
\* same input, for every number of finders; with one finder also in order.
C11_FanInSameBagAsSingle ==
  (~done /\ closed(MS)) =>
    /\ SeqBag(SelectSeq(takeRecvd, NotNil)) = SeqBag(singleFinderOutput(cfg.seed))
    /\ cfg.nf = 1 => SelectSeq(takeRecvd, NotNil) = singleFinderOutput(cfg.seed)

\* MaxFinders finders produced MaxLen values, all read before fanIn closed
C11_Witness ==
  /\ ~done /\ closed(MS) /\ cfg.nf = MaxFinders /\ cfg.nf > 1
  /\ Len(singleFinderOutput(cfg.seed)) = MaxLen
  /\ Len(SelectSeq(takeRecvd, NotNil)) = MaxLen


\* fair scheduling and fair select for the fan-out over a generator
FiniteFairness ==
  /\ WF_vars(GeneratorSend) /\ WF_vars(GeneratorDone) /\ WF_vars(GeneratorReturn)
  /\ \A k \in Finders :
       /\ WF_vars(PrimeFinderSend(k)) /\ WF_vars(PrimeFinderDone(k))
       /\ WF_vars(PrimeFinderRangeEnd(k))
       /\ WF_vars(MultiplexSend(k)) /\ WF_vars(MultiplexDone(k))
       /\ WF_vars(MultiplexRangeEnd(k))
  /\ WF_vars(FanInAdd) /\ WF_vars(FanInSpawn) /\ WF_vars(CloserClose)
  /\ WF_vars(TakeSend) /\ WF_vars(TakeRecvClosed) /\ WF_vars(TakeDone)
  /\ WF_vars(TakeReturn) /\ WF_vars(MainRangeEnd)

FairFiniteSpec == FiniteSpec /\ FiniteFairness

AllInputsClosed == \A k \in 1..cfg.nf : closed(PS(k))

\* the receives take will still make from its input
TakeReadsLeft ==
  IF pc[Take] = "recv" THEN cfg.num - i
  ELSE IF pc[Take] = "select" THEN cfg.num - i - 1
  ELSE 0

\* the merged stream has a reader for every value a forwarder still holds
ReaderDrains ==
  /\ pc[Take] \in {"recv", "select"}
  /\ TakeReadsLeft >= Cardinality({k \in 1..cfg.nf : pc[FW(k)] = "select"})

\* C12: once every input channel of fanIn is closed and the merged stream
\* has a reader for what the forwarders still hold (or done is closed),
\* multiplexedStream is eventually closed.
C12_MergedEventuallyClosed ==
  (AllInputsClosed /\ (done \/ ReaderDrains)) ~> closed(MS)

\* the inputs are closed, a forwarder still held a value, take read it and
\* waits on the closed merged stream
C12_Witness ==
  /\ ~done /\ AllInputsClosed /\ closed(MS)
  /\ pc[Take] = "recv" /\ Len(takeRecvd) > 0


\* the started goroutines whose code sends on channel c
Writers(c) == {p \in Procs \ {Closer} : pc[p] # "none" /\ Out(p) = c}

\* C13: at all times each stream has exactly one goroutine that sends on it,
\* the merged stream of fanIn included: no two goroutines are ever at a send
\* on the same channel.
C13_SingleWriter ==
  \A c \in Streams : Cardinality(Writers(c)) <= 1 /\ Cardinality(Senders(c)) <= 1

\* C13 as amended: every stream but the merged one has exactly one goroutine
\* that sends on it, the stage that made it; multiplexedStream is sent on by
\* every multiplex forwarder of fanIn.
C13_SingleWriterButMerged ==
  /\ \A c \in Streams \ {MS, TS} : Cardinality(Writers(c)) = 1
  /\ Writers(TS) \subseteq {Take}
  /\ \A c \in Streams \ {MS} : Senders(c) \subseteq Writers(c)
  /\ Writers(MS) \subseteq {FW(k) : k \in 1..cfg.nf}
  /\ pc[Main] \notin {"fanIn", "spawn"} => Cardinality(Writers(MS)) = cfg.nf

\* every finder is at a send on its own stream, the forwarders are running
C13_Witness ==
  /\ cfg.nf = MaxFinders /\ cfg.nf > 1
  /\ \A k \in 1..cfg.nf : pc[PF(k)] = "select" /\ pc[FW(k)] = "recv"


\* ------------------------------------------------ all pipeline programs
\* the channel pipeline, take over one source, and the fan-out over repeatFn
\* and over a generator, each from its own start
PipelinesInit == Init \/ FiniteInit \/ TakeInit \/ ChainInit

PipelinesNext == Next \/ FiniteNext \/ TakeNext \/ ChainNext

PipelinesSpec == PipelinesInit /\ [][PipelinesNext]_vars

\* C14: in every pipeline program, with or without done closed, no channel
\* is closed more than once and no goroutine is at a send on a channel that
\* has been closed.
C14_NoSendOnClosedNoDoubleClose ==
  \A c \in Chans : closes[c] <= 1 /\ (closed(c) => Senders(c) = {})

\* a cancelled fan-out has closed every stream while take was short of num
C14_Witness ==
  /\ cfg.prog = "fan" /\ cfg.src = "generator" /\ done
  /\ \A c \in Streams \ {VS} : closes[c] = 1
  /\ Len(out) < cfg.num


\* ------------------------------------------------- cancellation and sends
\* this step completes the send that p is waiting in: p goes on past its
\* select, or the receiver on p's open output takes the value
SendCompletes(p) ==
  /\ pc[p] = "select"
  /\ ~closed(Out(p))
  /\ \/ pc'[p] \notin {"select", "exit"}
     \/ \E q \in Receivers(Out(p)) : pc'[q] # pc[q]

ConvConfigs ==
  [prog : {"conv"}, src : {"repeat"},
   seed : UNION {[1..n -> SeedVals \cup {NotAnInt}] : n \in 1..MaxLen},
   stages : {<<>>}, num : 1..MaxNum, nf : {0}, hist : {0}]

ConvPc(c) ==
  [p \in Procs |->
     IF p = Src THEN "select"
     ELSE IF p \in {Take, ToInt, Main} THEN "recv"
     ELSE "none"]

ConvInit ==
  /\ cfg \in ConvConfigs
  /\ pc = ConvPc(cfg)
  /\ Fresh

ConvNext ==
  \/ RepeatSend
  \/ RepeatDone
  \/ TakeSend
  \/ TakeRecvClosed
  \/ TakeDone
  \/ TakeReturn
  \/ ToIntSend
  \/ ToIntDone
  \/ ToIntRangeEnd
  \/ ToIntPanic
  \/ MainRangeEnd
  \/ CloseDone

ConvSpec == ConvInit /\ [][ConvNext]_vars

\* C16: a value that is not of the asserted type crashes no stage: toInt
\* never panics, and the program is never ended by a panic.
C16_NoFaultCrashesStage ==
  \A p \in Procs : pc[p] \notin {"panic", "crashed"}


\* ----------------------------------------------------------- checkStatus
\* for result := range checkStatus(done, urls...): cfg.seed is urls, and
\* fetched[j] tells whether http.Get of the j-th url returned without error

\* Result{Error: err, Response: resp} for url u: http.Get returns a nil
\* error with the response of u, or the error of u with a nil response
Result(u, ok) ==
  [Error |-> IF ok THEN Nil ELSE u, Response |-> IF ok THEN u ELSE Nil]

\* the loop for _, url := range urls, after the url at idx
CheckNextPc == IF idx < Len(cfg.seed) THEN "get" ELSE "return"

\* slip: the first version of checkStatus, if err != nil { Println; continue }
CheckGetSkipsFailed ==
  /\ pc[CheckStatus] = "get"
  /\ \E ok \in BOOLEAN :
       /\ fetched' = Append(fetched, ok)
       /\ pc' = [pc EXCEPT ![CheckStatus] = IF ok THEN "select" ELSE CheckNextPc]
       /\ val' = [val EXCEPT ![CheckStatus] = IF ok THEN Result(cfg.seed[idx], ok) ELSE NoVal]
       /\ idx' = IF ok THEN idx ELSE idx + 1
  /\ UNCHANGED <<cfg, i, closes, done, wg, out, takeRecvd, sentBag, rcvdBag>>
  /\ UNCHANGED <<printed, buf>>
  /\ UNCHANGED syVars

\* checkStatus: resp, err := http.Get(url); result = Result{err, resp}
CheckGet ==
  /\ pc[CheckStatus] = "get"
  /\ \E ok \in BOOLEAN :
       /\ fetched' = Append(fetched, ok)
       /\ pc' = [pc EXCEPT ![CheckStatus] = "select"]
       /\ val' = [val EXCEPT ![CheckStatus] = Result(cfg.seed[idx], ok)]
       /\ idx' = idx
  /\ UNCHANGED <<cfg, i, closes, done, wg, out, takeRecvd, sentBag, rcvdBag>>
  /\ UNCHANGED <<printed, buf>>
  /\ UNCHANGED syVars

\* checkStatus: case results <- result
CheckSend ==
  /\ pc[CheckStatus] = "select"
  /\ ~closed(Out(CheckStatus))
  /\ \E q \in Receivers(Out(CheckStatus)) :
       Xfer(CheckStatus, CheckNextPc, NoVal, q, val[CheckStatus])
  /\ idx' = idx + 1
  /\ UNCHANGED <<cfg, i, closes, done, wg>>
  /\ UNCHANGED exVars

\* checkStatus: case <-done: return, and the deferred close(results)
CheckDone ==
  /\ pc[CheckStatus] = "select"
  /\ done
  /\ ReturnClose(CheckStatus)
  /\ UNCHANGED <<cfg, val, idx, i, done, wg, out, takeRecvd, sentBag, rcvdBag>>
  /\ UNCHANGED exVars

\* checkStatus: the loop over urls ends, deferred close(results)
CheckReturn ==
  /\ pc[CheckStatus] = "return"
  /\ ReturnClose(CheckStatus)
  /\ UNCHANGED <<cfg, val, idx, i, done, wg, out, takeRecvd, sentBag, rcvdBag>>
  /\ UNCHANGED exVars

CheckConfigs ==
  [prog : {"check"}, src : {"urls"}, seed : Seeds, stages : {<<>>},
   num : {0}, nf : {0}, hist : {0}]

CheckPc(c) ==
  [p \in Procs |->
     IF p = CheckStatus THEN (IF Len(c.seed) = 0 THEN "return" ELSE "get")
     ELSE IF p = Main THEN "recv"
     ELSE "none"]

CheckInit ==
  /\ cfg \in CheckConfigs
  /\ pc = CheckPc(cfg)
  /\ Fresh

CheckNext ==
  \/ CheckGet
  \/ CheckSend
  \/ CheckDone
  \/ CheckReturn
  \/ MainRangeEnd
  \/ CloseDone

CheckSpec == CheckInit /\ [][CheckNext]_vars

\* C17: while done is open, what main has received from results is one
\* Result per url, in url order, holding the error of a failed fetch and
\* the response of a successful one; and results is closed only when main
\* has received the Result of every url.
C17_OneResultPerUrl ==
  ~done =>
    /\ Len(out) <= Len(cfg.seed)
    /\ \A j \in 1..Len(out) : out[j] = Result(cfg.seed[j], fetched[j])
    /\ closed(RS) => Len(out) = Len(cfg.seed)

\* results is closed after a failed fetch followed by a successful one
C17_Witness ==
  /\ ~done /\ closed(RS)
  /\ Len(cfg.seed) = MaxLen /\ MaxLen >= 2
  /\ ~fetched[1] /\ fetched[2]


\* ------------------------------------------------------------ or-channel
\* or(channels...) over cfg.nf input channels; Or(L) is the goroutine
\* started by the L-th nested call of or

\* the argument list of the L-th call: append(channels[3:], orDone)
RECURSIVE OrChans(_)
OrChans(L) ==
  IF L = 1 THEN [j \in 1..cfg.nf |-> Input(j)]
  ELSE Append(SubSeq(OrChans(L - 1), 4, Len(OrChans(L - 1))), OrDone(L - 1))

\* what the L-th call returns: switch len(channels), then orDone
OrResult(L) ==
  IF Len(OrChans(L)) = 0 THEN NoChan
  ELSE IF Len(OrChans(L)) = 1 THEN OrChans(L)[1]
  ELSE OrDone(L)

\* slip: the default case selects on the first three channels only
OrWatchedShort(L) ==
  IF Len(OrChans(L)) = 2 THEN {OrChans(L)[1], OrChans(L)[2]}
  ELSE {OrChans(L)[1], OrChans(L)[2], OrChans(L)[3]}

\* the channels in the select of goroutine L
OrWatched(L) ==
  IF Len(OrChans(L)) = 2 THEN {OrChans(L)[1], OrChans(L)[2]}
  ELSE {OrChans(L)[1], OrChans(L)[2], OrChans(L)[3], OrResult(L + 1)}

\* goroutine L reaches its select; in the default case the operand
\* or(append(channels[3:], orDone)...) is called first, and that call
\* starts goroutine L+1 when it is given two or more channels
OrEnter(L) ==
  /\ pc[Or(L)] = "start"
  /\ pc' = [p \in Procs |->
              IF p = Or(L) THEN "select"
              ELSE IF /\ p = Or(L + 1)
                      /\ Len(OrChans(L)) > 2
                      /\ Len(OrChans(L + 1)) >= 2 THEN "start"
              ELSE pc[p]]
  /\ UNCHANGED <<cfg, val, idx, i, closes, done, wg, out, takeRecvd, sentBag, rcvdBag>>
  /\ UNCHANGED exVars

\* goroutine L: one of the receives of its select returns because the
\* channel is closed; the goroutine returns, deferred close(orDone)
OrWake(L) ==
  /\ pc[Or(L)] = "select"
  /\ \E c \in OrWatched(L) : closed(c)
  /\ pc' = [pc EXCEPT ![Or(L)] = "exit"]
  /\ closes' = [closes EXCEPT ![OrDone(L)] = @ + 1]
  /\ UNCHANGED <<cfg, val, idx, i, done, wg, out, takeRecvd, sentBag, rcvdBag>>
  /\ UNCHANGED exVars

\* the owner of the j-th input channel closes it
CloseInput(j) ==
  /\ j <= cfg.nf
  /\ ~closed(Input(j))
  /\ closes' = [closes EXCEPT ![Input(j)] = @ + 1]
  /\ UNCHANGED <<cfg, pc, val, idx, i, done, wg, out, takeRecvd, sentBag, rcvdBag>>
  /\ UNCHANGED exVars

OrConfigs ==
  [prog : {"or"}, src : {"none"}, seed : {<<>>}, stages : {<<>>},
   num : {0}, nf : 0..MaxOr, hist : {0}]

\* the outermost call has started its goroutine when it has two or more channels
OrPc(c) ==
  [p \in Procs |-> IF p = Or(1) /\ c.nf >= 2 THEN "start" ELSE "none"]

OrInit ==
  /\ cfg \in OrConfigs
  /\ pc = OrPc(cfg)
  /\ Fresh

OrNext ==
  \/ \E L \in OrLevels : OrEnter(L)
  \/ \E L \in OrLevels : OrWake(L)
  \/ \E j \in 1..MaxOr : CloseInput(j)

OrSpec == OrInit /\ [][OrNext]_vars

\* every started goroutine is scheduled
OrFairness ==
  \A L \in OrLevels : WF_vars(OrEnter(L)) /\ WF_vars(OrWake(L))

FairOrSpec == OrSpec /\ OrFairness

SomeInputClosed == \E j \in 1..cfg.nf : closed(Input(j))

\* the channel or returned is closed (a nil channel never is)
OrReturnedClosed == OrResult(1) # NoChan /\ closed(OrResult(1))

\* C18: for two or more input channels the channel returned by or is never
\* closed while every input is open, and once some input is closed it is
\* eventually closed; for one channel or returns that channel, for none nil.
C18_OrClosedIffSomeInput ==
  /\ [](cfg.nf >= 2 => (OrReturnedClosed => SomeInputClosed))
  /\ (cfg.nf >= 2 /\ SomeInputClosed) ~> OrReturnedClosed
  /\ [](cfg.nf >= 2 => OrResult(1) = OrDone(1))
  /\ [](cfg.nf = 1 => OrResult(1) = Input(1))
  /\ [](cfg.nf = 0 => OrResult(1) = NoChan)

\* only the last of MaxOr inputs was closed, and the returned channel is closed
C18_Witness ==
  /\ cfg.nf = MaxOr /\ cfg.nf > 3
  /\ \A j \in 1..cfg.nf : closed(Input(j)) <=> j = cfg.nf
  /\ OrReturnedClosed


\* ------------------------------------------------- the doWork example
\* terminated := doWork(done, nil); a goroutine that cancels; <-terminated.
\* printed is what has been written to standard output, line by line.

\* doWork: strings is nil, so case s := <-strings is never ready;
\* case <-done: return
DoWorkDone ==
  /\ pc[DoWork] = "select"
  /\ done
  /\ pc' = [pc EXCEPT ![DoWork] = "deferClose"]
  /\ UNCHANGED <<cfg, val, idx, i, closes, done, wg, out, takeRecvd, sentBag, rcvdBag>>
  /\ UNCHANGED exVars

\* doWork: the deferred calls run last in, first out: close(terminated) first
DoWorkDeferClose ==
  /\ pc[DoWork] = "deferClose"
  /\ pc' = [pc EXCEPT ![DoWork] = "deferPrint"]
  /\ closes' = [closes EXCEPT ![TermCh] = @ + 1]
  /\ UNCHANGED <<cfg, val, idx, i, done, wg, out, takeRecvd, sentBag, rcvdBag>>
  /\ UNCHANGED exVars

\* doWork: then the deferred fmt.Println("doWork exited.")
DoWorkDeferPrint ==
  /\ pc[DoWork] = "deferPrint"
  /\ pc' = [pc EXCEPT ![DoWork] = "exit"]
  /\ printed' = Append(printed, "doWork exited.")
  /\ UNCHANGED <<cfg, val, idx, i, closes, done, wg, out, takeRecvd, sentBag, rcvdBag>>
  /\ UNCHANGED <<buf, fetched>>
  /\ UNCHANGED syVars

\* the cancelling goroutine, after time.Sleep: fmt.Println("Canceling ...")
CancelPrint ==
  /\ pc[Canceller] = "print"
  /\ pc' = [pc EXCEPT ![Canceller] = "close"]
  /\ printed' = Append(printed, "Canceling doWork goroutine...")
  /\ UNCHANGED <<cfg, val, idx, i, closes, done, wg, out, takeRecvd, sentBag, rcvdBag>>
  /\ UNCHANGED <<buf, fetched>>
  /\ UNCHANGED syVars

\* the cancelling goroutine: close(done)
CancelClose ==
  /\ pc[Canceller] = "close"
  /\ pc' = [pc EXCEPT ![Canceller] = "exit"]
  /\ done' = TRUE
  /\ UNCHANGED <<cfg, val, idx, i, closes, wg, out, takeRecvd, sentBag, rcvdBag>>
  /\ UNCHANGED exVars

\* main: <-terminated returns once terminated is closed
MainJoin ==
  /\ cfg.prog = "doWork"
  /\ pc[Main] = "recv"
  /\ closed(TermCh)
  /\ pc' = [pc EXCEPT ![Main] = "print"]
  /\ UNCHANGED <<cfg, val, idx, i, closes, done, wg, out, takeRecvd, sentBag, rcvdBag>>
  /\ UNCHANGED exVars

\* main: fmt.Println("Done.")
MainPrintDone ==
  /\ cfg.prog = "doWork"
  /\ pc[Main] = "print"
  /\ pc' = [pc EXCEPT ![Main] = "return"]
  /\ printed' = Append(printed, "Done.")
  /\ UNCHANGED <<cfg, val, idx, i, closes, done, wg, out, takeRecvd, sentBag, rcvdBag>>
  /\ UNCHANGED <<buf, fetched>>
  /\ UNCHANGED syVars

\* main returns: the program ends, and with it every goroutine still running
MainReturn ==
  /\ cfg.prog = "doWork"
  /\ pc[Main] = "return"
  /\ pc' = [p \in Procs |-> IF pc[p] = "none" THEN "none" ELSE "exit"]
  /\ UNCHANGED <<cfg, val, idx, i, closes, done, wg, out, takeRecvd, sentBag, rcvdBag>>
  /\ UNCHANGED exVars

\* the output the example documents
DoWorkOutput == <<"Canceling doWork goroutine...", "doWork exited.", "Done.">>

\* ------------------------------------------- the buffered channel example
\* intStream := make(chan int, 4); a producer of five values; main ranges
\* over intStream.  buf is the channel's buffer, printed the lines written
\* to stdoutBuff, i the producer's loop variable.
BufCap == 4
NumSends == 5

\* a line left in stdoutBuff by two unsynchronised writes that overlapped
Garbled == "<garbled>"

\* the goroutines that are at a write to stdoutBuff
BufWriters == {p \in {Producer, Main} : pc[p] \in {"print", "deferPrint"}}

\* fmt.Fprint*(&stdoutBuff, ...) by p: bytes.Buffer is not synchronised, so
\* a write that overlaps the other goroutine's write may leave either line
\* or a garbled one
WriteBuf(p, line) ==
  IF BufWriters = {p}
    THEN printed' = Append(printed, line)
    ELSE printed' \in {Append(printed, line), Append(printed, Garbled)}

\* producer: fmt.Fprintf(&stdoutBuff, "Sending: %d\n", i)
ProducerPrint ==
  /\ pc[Producer] = "print"
  /\ pc' = [pc EXCEPT ![Producer] = "send"]
  /\ WriteBuf(Producer, "Sending: " \o ToString(i))
  /\ UNCHANGED <<cfg, val, idx, i, closes, done, wg, out, takeRecvd, sentBag, rcvdBag>>
  /\ UNCHANGED <<buf, fetched>>
  /\ UNCHANGED syVars

\* producer: intStream <- i, which goes through while the buffer has room;
\* then i++ and the loop test i < 5
ProducerSend ==
  /\ pc[Producer] = "send"
  /\ Len(buf) < BufCap
  /\ buf' = Append(buf, i)
  /\ i' = i + 1
  /\ pc' = [pc EXCEPT ![Producer] = IF i + 1 < NumSends THEN "print" ELSE "deferPrint"]
  /\ UNCHANGED <<cfg, val, idx, closes, done, wg, out, takeRecvd, sentBag, rcvdBag>>
  /\ UNCHANGED <<printed, fetched>>
  /\ UNCHANGED syVars

\* producer: the deferred Fprintln(&stdoutBuff, "Producer Done.") runs first
ProducerDeferPrint ==
  /\ pc[Producer] = "deferPrint"
  /\ pc' = [pc EXCEPT ![Producer] = "deferClose"]
  /\ WriteBuf(Producer, "Producer Done.")
  /\ UNCHANGED <<cfg, val, idx, i, closes, done, wg, out, takeRecvd, sentBag, rcvdBag>>
  /\ UNCHANGED <<buf, fetched>>
  /\ UNCHANGED syVars

\* producer: then the deferred close(intStream)
ProducerDeferClose ==
  /\ pc[Producer] = "deferClose"
  /\ pc' = [pc EXCEPT ![Producer] = "exit"]
  /\ closes' = [closes EXCEPT ![IS] = @ + 1]
  /\ UNCHANGED <<cfg, val, idx, i, done, wg, out, takeRecvd, sentBag, rcvdBag>>
  /\ UNCHANGED exVars

\* main: for integer := range intStream takes the oldest buffered value
BufRecv ==
  /\ cfg.prog = "buffered"
  /\ pc[Main] = "recv"
  /\ buf # <<>>
  /\ buf' = Tail(buf)
  /\ val' = [val EXCEPT ![Main] = Head(buf)]
  /\ pc' = [pc EXCEPT ![Main] = "print"]
  /\ UNCHANGED <<cfg, idx, i, closes, done, wg, out, takeRecvd, sentBag, rcvdBag>>
  /\ UNCHANGED <<printed, fetched>>
  /\ UNCHANGED syVars

\* main: fmt.Fprintf(&stdoutBuff, "Received %v.\n", integer)
MainPrintReceived ==
  /\ cfg.prog = "buffered"
  /\ pc[Main] = "print"
  /\ pc' = [pc EXCEPT ![Main] = "recv"]
  /\ val' = [val EXCEPT ![Main] = NoVal]
  /\ WriteBuf(Main, "Received " \o ToString(val[Main]) \o ".")
  /\ UNCHANGED <<cfg, idx, i, closes, done, wg, out, takeRecvd, sentBag, rcvdBag>>
  /\ UNCHANGED <<buf, fetched>>
  /\ UNCHANGED syVars

\* main: the range ends when intStream is closed and drained; main returns
BufRangeEnd ==
  /\ cfg.prog = "buffered"
  /\ pc[Main] = "recv"
  /\ buf = <<>>
  /\ closed(IS)
  /\ pc' = [pc EXCEPT ![Main] = "exit"]
  /\ UNCHANGED <<cfg, val, idx, i, closes, done, wg, out, takeRecvd, sentBag, rcvdBag>>
  /\ UNCHANGED exVars

\* the output the example documents
BufferedOutput ==
  [j \in 1..NumSends |-> "Sending: " \o ToString(j - 1)]
    \o <<"Producer Done.">>
    \o [j \in 1..NumSends |-> "Received " \o ToString(j - 1) \o "."]

\* ------------------------------------------------- the two examples
ExampleConfigs ==
  [prog : {"doWork", "buffered"}, src : {"none"}, seed : {<<>>}, stages : {<<>>},
   num : {0}, nf : {0}, hist : {0}]

ExamplePc(c) ==
  [p \in Procs |->
     IF c.prog = "doWork" /\ p = DoWork THEN "select"
     ELSE IF c.prog = "doWork" /\ p = Canceller THEN "print"
     ELSE IF c.prog = "buffered" /\ p = Producer THEN "print"
     ELSE IF p = Main THEN "recv"
     ELSE "none"]

ExamplesInit ==
  /\ cfg \in ExampleConfigs
  /\ pc = ExamplePc(cfg)
  /\ Fresh

ExamplesNext ==
  \/ DoWorkDone
  \/ DoWorkDeferClose
  \/ DoWorkDeferPrint
  \/ CancelPrint
  \/ CancelClose
  \/ MainJoin
  \/ MainPrintDone
  \/ MainReturn
  \/ ProducerPrint
  \/ ProducerSend
  \/ ProducerDeferPrint
  \/ ProducerDeferClose
  \/ BufRecv
  \/ MainPrintReceived
  \/ BufRangeEnd

ExamplesSpec == ExamplesInit /\ [][ExamplesNext]_vars

\* C19: in the doWork example the lines are printed in the documented order,
\* and "doWork exited." has been printed when main is past <-terminated.
C19_DoWorkOutputOrder ==
  cfg.prog = "doWork" =>
    /\ IsPrefix(printed, DoWorkOutput)
    /\ pc[Main] # "recv" => "doWork exited." \in Range(printed)

\* C20: in the buffered channel example the five Sending lines and
\* "Producer Done." are written before the first Received line, so that
\* stdoutBuff always holds a prefix of the documented output.
C20_BufferedOutputOrder ==
  cfg.prog = "buffered" => IsPrefix(printed, BufferedOutput)


\* ------------------------------------------------- generator on its own
\* intStream := generator(done, integers...); whether and when the caller
\* starts to receive from intStream is up to the caller

\* the caller reaches a for v := range over the returned channel
MainStartRange ==
  /\ pc[Main] = "idle"
  /\ pc' = [pc EXCEPT ![Main] = "recv"]
  /\ UNCHANGED <<cfg, val, idx, i, closes, done, wg, out, takeRecvd, sentBag, rcvdBag>>
  /\ UNCHANGED exVars

GenConfigs ==
  [prog : {"gen"}, src : {"generator"}, seed : Seeds, stages : {<<>>},
   num : {0}, nf : {0}, hist : {0}]

GenPc(c) ==
  [p \in Procs |->
     IF p = Src THEN SrcPc(c)
     ELSE IF p = Main THEN "idle"
     ELSE "none"]

GenInit ==
  /\ cfg \in GenConfigs
  /\ pc = GenPc(cfg)
  /\ Fresh

GenNext ==
  \/ GeneratorSend
  \/ GeneratorDone
  \/ GeneratorReturn
  \/ MainStartRange
  \/ MainRangeEnd
  \/ CloseDone

GenSpec == GenInit /\ [][GenNext]_vars

\* the generator goroutine is scheduled; the caller need not ever receive
\* and need not ever close done
GenFairness ==
  WF_vars(GeneratorSend) /\ WF_vars(GeneratorDone) /\ WF_vars(GeneratorReturn)

FairGenSpec == GenSpec /\ GenFairness

\* C21: the generator goroutine sends all its values and closes its channel
\* with no receiver and with done open: in every fair run either the caller
\* has started to receive, or done is closed, or the channel gets closed.
C21_GeneratorFinishesAlone ==
  <>(pc[Main] # "idle" \/ done \/ closed(Out(Src)))


\* ------------------------------------------- repeat over any argument list
\* take(done, repeat(done, values...), num), the empty list included

\* repeat with no values: the outer for { } begins another round
RepeatLoop ==
  /\ cfg.src = "repeat"
  /\ pc[Src] = "for"
  /\ pc' = [pc EXCEPT ![Src] = "range"]
  /\ UNCHANGED <<cfg, val, idx, i, closes, done, wg, out, takeRecvd, sentBag, rcvdBag>>
  /\ UNCHANGED exVars

\* repeat with no values: for _, v := range values has nothing to range
\* over, so the round ends without reaching the select
RepeatRangeEmpty ==
  /\ cfg.src = "repeat"
  /\ pc[Src] = "range"
  /\ Len(cfg.seed) = 0
  /\ pc' = [pc EXCEPT ![Src] = "for"]
  /\ UNCHANGED <<cfg, val, idx, i, closes, done, wg, out, takeRecvd, sentBag, rcvdBag>>
  /\ UNCHANGED exVars

RepeatConfigs ==
  [prog : {"take"}, src : {"repeat"}, seed : Seeds, stages : {<<>>},
   num : 1..MaxNum, nf : {0}, hist : {0}]

RepeatPc(c) ==
  [p \in Procs |->
     IF p = Src THEN (IF Len(c.seed) = 0 THEN "for" ELSE "select")
     ELSE IF p \in {Take, Main} THEN "recv"
     ELSE "none"]

RepeatInit ==
  /\ cfg \in RepeatConfigs
  /\ pc = RepeatPc(cfg)
  /\ Fresh

RepeatNext ==
  \/ RepeatLoop
  \/ RepeatRangeEmpty
  \/ RepeatSend
  \/ RepeatDone
  \/ TakeSend
  \/ TakeRecvClosed
  \/ TakeDone
  \/ TakeReturn
  \/ MainRangeEnd
  \/ CloseDone

RepeatSpec == RepeatInit /\ [][RepeatNext]_vars

RepeatFairness ==
  /\ WF_vars(RepeatLoop) /\ WF_vars(RepeatRangeEmpty)
  /\ WF_vars(RepeatSend) /\ WF_vars(RepeatDone)
  /\ WF_vars(TakeSend) /\ WF_vars(TakeRecvClosed) /\ WF_vars(TakeDone)
  /\ WF_vars(TakeReturn) /\ WF_vars(MainRangeEnd)

FairRepeatSpec == RepeatSpec /\ RepeatFairness

\* the values taken from valueStream are the arguments, cyclically in order
CyclicInOrder ==
  \A j \in 1..Len(takeRecvd) :
    /\ Len(cfg.seed) > 0
    /\ takeRecvd[j] = cfg.seed[((j - 1) % Len(cfg.seed)) + 1]

\* C22: for every argument list, the empty one included, repeat emits the
\* values cyclically in argument order while done is open, and once done is
\* closed its goroutine eventually returns and closes valueStream.
C22_RepeatCyclesThenReturns ==
  /\ [](~done => CyclicInOrder)
  /\ done ~> (Terminated(Src) /\ closed(VS))


\* ------------------------------------------------- the roman_number server
\* The handler registered on "/".  A request path is given by the elements
\* between its slashes: cfg.first is the first element, as a string, and
\* cfg.rest the elements after it, each a sequence of characters.

\* var Numerals = map[int]string{...}
Numerals ==
  <<"I", "II", "III", "IV", "V", "VI", "VII", "VIII", "IX", "X">>

\* numerals.Numerals[number]: the zero value "" for a key not in the map
NumeralOf(number) ==
  IF number \in DOMAIN Numerals THEN Numerals[number] ELSE ""

Digits == <<"0", "1", "2", "3", "4", "5", "6", "7", "8", "9">>

IsDigit(c) == \E d \in DOMAIN Digits : Digits[d] = c

DigitVal(c) == (CHOOSE d \in DOMAIN Digits : Digits[d] = c) - 1

\* the characters request elements are made of
SegChars == {"0", "1", "2", "-", "a", " "}

Segments == UNION {[1..n -> SegChars] : n \in 0..MaxSegLen}

\* strings.TrimSpace: leading and trailing white space removed
RECURSIVE TrimLeft(_)
TrimLeft(str) ==
  IF str # <<>> /\ Head(str) = " " THEN TrimLeft(Tail(str)) ELSE str

RECURSIVE TrimRight(_)
TrimRight(str) ==
  IF str # <<>> /\ str[Len(str)] = " "
    THEN TrimRight(SubSeq(str, 1, Len(str) - 1)) ELSE str

TrimSpace(str) == TrimRight(TrimLeft(str))

\* the value of a sequence of decimal digits
RECURSIVE DecimalValue(_)
DecimalValue(ds) ==
  IF ds = <<>> THEN 0
  ELSE 10 * DecimalValue(SubSeq(ds, 1, Len(ds) - 1)) + DigitVal(ds[Len(ds)])

\* number, _ := strconv.Atoi(str): an optional sign and one or more decimal
\* digits give the value; anything else gives 0 and an error that is dropped
Atoi(str) ==
  LET signed == str # <<>> /\ Head(str) \in {"-", "+"}
      ds == IF signed THEN Tail(str) ELSE str
  IN IF ds = <<>> \/ \E j \in 1..Len(ds) : ~IsDigit(ds[j]) THEN 0
     ELSE IF signed /\ Head(str) = "-" THEN 0 - DecimalValue(ds)
     ELSE DecimalValue(ds)

\* strings.Split(r.URL.Path, "/") of a path that begins with a slash
urlPathElements == <<"", cfg.first>> \o cfg.rest

\* an index expression urlPathElements[k] of the handler is out of range;
\* Go indexes from 0
IndexFault ==
  \/ Len(urlPathElements) < 2
  \/ urlPathElements[2] = "roman_number" /\ Len(urlPathElements) < 3

\* fmt.Fprintf(w, "%q", html.EscapeString(str)) for a string of letters
Quoted(str) == "\"" \o str \o "\""

\* what the handler writes for the request
Response ==
  IF urlPathElements[2] = "roman_number"
    THEN LET number == Atoi(TrimSpace(urlPathElements[3]))
         IN IF number = 0 \/ number > 10
              THEN [status |-> 404, body |-> "404 - Not Found"]
              ELSE [status |-> 200, body |-> Quoted(NumeralOf(number))]
    ELSE [status |-> 400, body |-> "400 - Bad request"]

\* the handler runs to its end and the response is sent
Handle ==
  /\ pc[Handler] = "serve"
  /\ ~IndexFault
  /\ out' = Append(out, Response)
  /\ pc' = [pc EXCEPT ![Handler] = "exit"]
  /\ UNCHANGED <<cfg, val, idx, i, closes, done, wg, takeRecvd, sentBag, rcvdBag>>
  /\ UNCHANGED exVars

\* the handler panics with index out of range; net/http recovers the panic
\* and closes the connection, and nothing has been written
HandlePanic ==
  /\ pc[Handler] = "serve"
  /\ IndexFault
  /\ pc' = [pc EXCEPT ![Handler] = "panic"]
  /\ UNCHANGED <<cfg, val, idx, i, closes, done, wg, out, takeRecvd, sentBag, rcvdBag>>
  /\ UNCHANGED exVars

HttpConfigs ==
  [prog : {"http"}, first : {"roman_number", "roman", ""},
   rest : {<<>>} \cup {<<x>> : x \in Segments}
            \cup {<<x, <<"a">> >> : x \in Segments}]

HttpPc(c) == [p \in Procs |-> IF p = Handler THEN "serve" ELSE "none"]

HttpInit ==
  /\ cfg \in HttpConfigs
  /\ pc = HttpPc(cfg)
  /\ Fresh

HttpNext == Handle \/ HandlePanic

HttpSpec == HttpInit /\ [][HttpNext]_vars

\* the request has the form /roman_number/<x>
RomanForm == cfg.first = "roman_number" /\ cfg.rest # <<>>

\* <x> stands for a key of Numerals
Listed == Atoi(TrimSpace(cfg.rest[1])) \in DOMAIN Numerals

\* C23: a request /roman_number/<x> is answered with the quoted numeral of x
\* when x is a key of Numerals, and with status 404 and body
\* "404 - Not Found" for every other x, negative and non-numeric included.
C23_NumeralOr404 ==
  (RomanForm /\ pc[Handler] # "serve") =>
    /\ pc[Handler] = "exit"
    /\ out = << IF Listed
                  THEN [status |-> 200,
                        body |-> Quoted(Numerals[Atoi(TrimSpace(cfg.rest[1]))])]
                  ELSE [status |-> 404, body |-> "404 - Not Found"] >>

\* C24: every request not of the form /roman_number/<x> is answered with
\* status 400 and body "400 - Bad request", and the handler never fails with
\* an index out of range.
C24_BadRequestNoFault ==
  /\ pc[Handler] # "panic"
  /\ (~RomanForm /\ pc[Handler] # "serve") =>
       out = << [status |-> 400, body |-> "400 - Bad request"] >>


\* ------------------------------------------------- stages and their input
\* every goroutine of the channel pipeline is scheduled, and select picks
\* each ready case eventually
ChainFairness ==
  /\ WF_vars(GeneratorSend) /\ WF_vars(GeneratorDone) /\ WF_vars(GeneratorReturn)
  /\ \A j \in StageIds :
       WF_vars(StageSend(j)) /\ WF_vars(StageDone(j)) /\ WF_vars(StageRangeEnd(j))
  /\ WF_vars(MainRangeEnd)

FairChainSpec == ChainSpec /\ ChainFairness

\* the pipeline programs, each with its goroutines scheduled
FairPipelinesSpec ==
  /\ PipelinesSpec
  /\ Fairness /\ FiniteFairness /\ ChainFairness
  /\ WF_vars(RepeatSend) /\ WF_vars(RepeatDone)

\* the goroutines that read one stream and write another
StageProcs ==
  {Stage(j) : j \in StageIds} \cup {ToInt} \cup {PF(k) : k \in Finders}

\* what a stage sends is received: main ranges over the channel pipeline to
\* its end, and in the fan-out take still reads what the forwarders hold
SendsHaveReaders == cfg.prog = "chain" \/ ReaderDrains

RemAt(label) == <<"removeFromQueue", label>>

\* main: c.L.Lock()
CondLock ==
  /\ cfg.prog = "cond"
  /\ pc[Main] = "lock"
  /\ mu = NoProc
  /\ mu' = Main
  /\ pc' = [pc EXCEPT ![Main] = "check"]
  /\ UNCHANGED <<cfg, val, idx, i, closes, done, wg, out, takeRecvd, sentBag, rcvdBag>>
  /\ UNCHANGED <<printed, buf, fetched, waiting, queue, count, crowd>>

\* slip: the loop test written len(queue) > 2
CondCheckLoose ==
  /\ cfg.prog = "cond"
  /\ pc[Main] = "check"
  /\ pc' = [pc EXCEPT ![Main] = IF Len(queue) > QueueLimit THEN "wait" ELSE "add"]
  /\ UNCHANGED <<cfg, val, idx, i, closes, done, wg, out, takeRecvd, sentBag, rcvdBag>>
  /\ UNCHANGED exVars

\* main: the loop test for len(queue) == 2, made on entry and after each Wait
CondCheck ==
  /\ cfg.prog = "cond"
  /\ pc[Main] = "check"
  /\ pc' = [pc EXCEPT ![Main] = IF Len(queue) = QueueLimit THEN "wait" ELSE "add"]
  /\ UNCHANGED <<cfg, val, idx, i, closes, done, wg, out, takeRecvd, sentBag, rcvdBag>>
  /\ UNCHANGED exVars

\* main: c.Wait() puts the caller on the notify list, unlocks c.L and suspends
CondWait ==
  /\ cfg.prog = "cond"
  /\ pc[Main] = "wait"
  /\ mu' = NoProc
  /\ waiting' = waiting \cup {Main}
  /\ pc' = [pc EXCEPT ![Main] = "suspended"]
  /\ UNCHANGED <<cfg, val, idx, i, closes, done, wg, out, takeRecvd, sentBag, rcvdBag>>
  /\ UNCHANGED <<printed, buf, fetched, queue, count, crowd>>

\* main: woken by a Signal, c.Wait() locks c.L again before it returns
CondRelock ==
  /\ cfg.prog = "cond"
  /\ pc[Main] = "relock"
  /\ mu = NoProc
  /\ mu' = Main
  /\ pc' = [pc EXCEPT ![Main] = "check"]
  /\ UNCHANGED <<cfg, val, idx, i, closes, done, wg, out, takeRecvd, sentBag, rcvdBag>>
  /\ UNCHANGED <<printed, buf, fetched, waiting, queue, count, crowd>>

\* main: Println("Adding to queue"); queue = append(queue, struct{}{});
\* go removeFromQueue(1 * time.Second)
CondAdd ==
  /\ cfg.prog = "cond"
  /\ pc[Main] = "add"
  /\ printed' = Append(printed, "Adding to queue")
  /\ queue' = Append(queue, <<>>)
  /\ crowd' = BagAdd(crowd, RemAt("sleep"))
  /\ pc' = [pc EXCEPT ![Main] = "unlock"]
  /\ UNCHANGED <<cfg, val, idx, i, closes, done, wg, out, takeRecvd, sentBag, rcvdBag>>
  /\ UNCHANGED <<buf, fetched, mu, waiting, count>>

\* main: c.L.Unlock(), then i++ and the loop test i < 10
CondUnlock ==
  /\ cfg.prog = "cond"
  /\ pc[Main] = "unlock"
  /\ mu' = NoProc
  /\ i' = i + 1
  /\ pc' = [pc EXCEPT ![Main] = IF i + 1 < QueueItems THEN "lock" ELSE "return"]
  /\ UNCHANGED <<cfg, val, idx, closes, done, wg, out, takeRecvd, sentBag, rcvdBag>>
  /\ UNCHANGED <<printed, buf, fetched, waiting, queue, count, crowd>>

\* main returns: the program ends, and with it every goroutine still running
CondMainReturn ==
  /\ cfg.prog = "cond"
  /\ pc[Main] = "return"
  /\ pc' = [pc EXCEPT ![Main] = "exit"]
  /\ crowd' = <<>>
  /\ UNCHANGED <<cfg, val, idx, i, closes, done, wg, out, takeRecvd, sentBag, rcvdBag>>
  /\ UNCHANGED <<printed, buf, fetched, mu, waiting, queue, count>>

\* removeFromQueue: after time.Sleep(delay), c.L.Lock()
RemLock ==
  /\ Copies(RemAt("sleep")) > 0
  /\ mu = NoProc
  /\ mu' = Remover
  /\ crowd' = Move(RemAt("sleep"), RemAt("crit"))
  /\ UNCHANGED <<cfg, pc, val, idx, i, closes, done, wg, out, takeRecvd, sentBag, rcvdBag>>
  /\ UNCHANGED <<printed, buf, fetched, waiting, queue, count>>

\* removeFromQueue: queue = queue[1:], which panics on an empty queue;
\* Println("Removed from queue")
RemDequeue ==
  /\ Copies(RemAt("crit")) > 0
  /\ IF queue = <<>>
       THEN /\ crowd' = Move(RemAt("crit"), RemAt("panic"))
            /\ UNCHANGED <<queue, printed>>
       ELSE /\ queue' = Tail(queue)
            /\ printed' = Append(printed, "Removed from queue")
            /\ crowd' = Move(RemAt("crit"), RemAt("unlock"))
  /\ UNCHANGED <<cfg, pc, val, idx, i, closes, done, wg, out, takeRecvd, sentBag, rcvdBag>>
  /\ UNCHANGED <<buf, fetched, mu, waiting, count>>

\* removeFromQueue: c.L.Unlock()
RemUnlock ==
  /\ Copies(RemAt("unlock")) > 0
  /\ mu' = NoProc
  /\ crowd' = Move(RemAt("unlock"), RemAt("signal"))
  /\ UNCHANGED <<cfg, pc, val, idx, i, closes, done, wg, out, takeRecvd, sentBag, rcvdBag>>
  /\ UNCHANGED <<printed, buf, fetched, waiting, queue, count>>

\* removeFromQueue: c.Signal() wakes one goroutine suspended in c.Wait(), if
\* there is one; the goroutine then returns
RemSignal ==
  /\ Copies(RemAt("signal")) > 0
  /\ crowd' = BagDel(crowd, RemAt("signal"))
  /\ IF waiting = {}
       THEN UNCHANGED <<pc, waiting>>
       ELSE \E w \in waiting :
              /\ waiting' = waiting \ {w}
              /\ pc' = [pc EXCEPT ![w] = "relock"]
  /\ UNCHANGED <<cfg, val, idx, i, closes, done, wg, out, takeRecvd, sentBag, rcvdBag>>
  /\ UNCHANGED <<printed, buf, fetched, mu, queue, count>>

CondPc == [p \in Procs |-> IF p = Main THEN "lock" ELSE "none"]

CondInit ==
  /\ cfg = [prog |-> "cond"]
  /\ pc = CondPc
  /\ Fresh

CondNext ==
  \/ CondLock
  \/ CondCheck
  \/ CondWait
  \/ CondRelock
  \/ CondAdd
  \/ CondUnlock
  \/ CondMainReturn
  \/ RemLock
  \/ RemDequeue
  \/ RemUnlock
  \/ RemSignal

CondSpec == CondInit /\ [][CondNext]_vars

\* C26: the queue never holds more than two items, and main is at its
\* append only while it holds c.L and after it saw len(queue) != 2.
C26_QueueAtMostTwo ==
  /\ Len(queue) <= QueueLimit
  /\ pc[Main] = "add" => (mu = Main /\ Len(queue) # QueueLimit)

\* the queue is full after the last add, one remover has still to take the
\* lock and another has removed its item and is about to signal
C26_Witness ==
  /\ Len(queue) = QueueLimit
  /\ i = QueueItems
  /\ Copies(RemAt("signal")) > 0
  /\ Copies(RemAt("sleep")) > 0


\* ------------------------------------------------------ the Mutex example
\* main starts six goroutines that call increment and six that call
\* decrement, and waits for them.  The goroutines of one kind run the same
\* code, so crowd keeps how many are at each position; a goroutine between
\* the read and the write of count++ / count-- holds the value it read.
ArithKinds == {"increment", "decrement"}

ArithAt(kind, label, v) == <<kind, label, v>>

\* the goroutine of this kind, as holder of lock
Arith(kind) == <<kind, 0>>

\* count++ or count--, applied to the value read
ArithStep(kind, v) == IF kind = "increment" THEN v + 1 ELSE v - 1

\* the positions at which a goroutine is inside its critical section
ArithInside ==
  {pos \in DOMAIN crowd : pos[2] \in {"read", "write", "print", "unlock"}}

\* main: arithmetic.Add(1)
ArithAdd ==
  /\ cfg.prog = "mutex"
  /\ pc[Main] \in {"incrementAdd", "decrementAdd"}
  /\ wg' = wg + 1
  /\ pc' = [pc EXCEPT ![Main] = IF @ = "incrementAdd" THEN "incrementGo" ELSE "decrementGo"]
  /\ UNCHANGED <<cfg, val, idx, i, closes, done, out, takeRecvd, sentBag, rcvdBag>>
  /\ UNCHANGED exVars

\* main: go func() { defer arithmetic.Done(); increment() }(), then i++ and
\* the loop test i <= 5; after the first loop the second begins at i := 0
ArithGo ==
  /\ cfg.prog = "mutex"
  /\ pc[Main] \in {"incrementGo", "decrementGo"}
  /\ LET kind == IF pc[Main] = "incrementGo" THEN "increment" ELSE "decrement"
     IN /\ crowd' = BagAdd(crowd, ArithAt(kind, "lock", 0))
        /\ i' = IF i + 1 <= ArithLast THEN i + 1 ELSE 0
        /\ pc' = [pc EXCEPT ![Main] =
                    IF i + 1 <= ArithLast THEN kind \o "Add"
                    ELSE IF kind = "increment" THEN "decrementAdd" ELSE "wait"]
  /\ UNCHANGED <<cfg, val, idx, closes, done, wg, out, takeRecvd, sentBag, rcvdBag>>
  /\ UNCHANGED <<printed, buf, fetched, mu, waiting, queue, count>>

\* slip: Lock returns although another goroutine holds the lock
ArithLockNoWait(kind) ==
  /\ Copies(ArithAt(kind, "lock", 0)) > 0
  /\ mu' = Arith(kind)
  /\ crowd' = Move(ArithAt(kind, "lock", 0), ArithAt(kind, "read", 0))
  /\ UNCHANGED <<cfg, pc, val, idx, i, closes, done, wg, out, takeRecvd, sentBag, rcvdBag>>
  /\ UNCHANGED <<printed, buf, fetched, waiting, queue, count>>

\* increment, decrement: lock.Lock()
ArithLock(kind) ==
  /\ Copies(ArithAt(kind, "lock", 0)) > 0
  /\ mu = NoProc
  /\ mu' = Arith(kind)
  /\ crowd' = Move(ArithAt(kind, "lock", 0), ArithAt(kind, "read", 0))
  /\ UNCHANGED <<cfg, pc, val, idx, i, closes, done, wg, out, takeRecvd, sentBag, rcvdBag>>
  /\ UNCHANGED <<printed, buf, fetched, waiting, queue, count>>

\* count++, count--: the read of count
ArithRead(kind) ==
  /\ Copies(ArithAt(kind, "read", 0)) > 0
  /\ crowd' = Move(ArithAt(kind, "read", 0), ArithAt(kind, "write", count))
  /\ UNCHANGED <<cfg, pc, val, idx, i, closes, done, wg, out, takeRecvd, sentBag, rcvdBag>>
  /\ UNCHANGED <<printed, buf, fetched, mu, waiting, queue, count>>

\* count++, count--: the write of the value read, plus or minus one
ArithWrite(kind) ==
  /\ \E pos \in DOMAIN crowd :
       /\ pos[1] = kind /\ pos[2] = "write"
       /\ count' = ArithStep(kind, pos[3])
       /\ crowd' = Move(pos, ArithAt(kind, "print", 0))
  /\ UNCHANGED <<cfg, pc, val, idx, i, closes, done, wg, out, takeRecvd, sentBag, rcvdBag>>
  /\ UNCHANGED <<printed, buf, fetched, mu, waiting, queue>>

\* fmt.Printf("Incrementing: %d\n", count), fmt.Printf("Decrementing: %d\n", count)
ArithPrint(kind) ==
  /\ Copies(ArithAt(kind, "print", 0)) > 0
  /\ printed' = Append(printed,
                  (IF kind = "increment" THEN "Incrementing: " ELSE "Decrementing: ")
                    \o ToString(count))
  /\ crowd' = Move(ArithAt(kind, "print", 0), ArithAt(kind, "unlock", 0))
  /\ UNCHANGED <<cfg, pc, val, idx, i, closes, done, wg, out, takeRecvd, sentBag, rcvdBag>>
  /\ UNCHANGED <<buf, fetched, mu, waiting, queue, count>>

\* increment, decrement return: the deferred lock.Unlock()
ArithUnlock(kind) ==
  /\ Copies(ArithAt(kind, "unlock", 0)) > 0
  /\ mu' = NoProc
  /\ crowd' = Move(ArithAt(kind, "unlock", 0), ArithAt(kind, "done", 0))
  /\ UNCHANGED <<cfg, pc, val, idx, i, closes, done, wg, out, takeRecvd, sentBag, rcvdBag>>
  /\ UNCHANGED <<printed, buf, fetched, waiting, queue, count>>

\* the goroutine returns: the deferred arithmetic.Done()
ArithDone(kind) ==
  /\ Copies(ArithAt(kind, "done", 0)) > 0
  /\ wg' = wg - 1
  /\ crowd' = BagDel(crowd, ArithAt(kind, "done", 0))
  /\ UNCHANGED <<cfg, pc, val, idx, i, closes, done, out, takeRecvd, sentBag, rcvdBag>>
  /\ UNCHANGED <<printed, buf, fetched, mu, waiting, queue, count>>

\* main: arithmetic.Wait() returns when the counter is zero
ArithWait ==
  /\ cfg.prog = "mutex"
  /\ pc[Main] = "wait"
  /\ wg = 0
  /\ pc' = [pc EXCEPT ![Main] = "print"]
  /\ UNCHANGED <<cfg, val, idx, i, closes, done, wg, out, takeRecvd, sentBag, rcvdBag>>
  /\ UNCHANGED exVars

\* main: fmt.Println("Arithmetic complete."), and main returns
ArithComplete ==
  /\ cfg.prog = "mutex"
  /\ pc[Main] = "print"
  /\ printed' = Append(printed, "Arithmetic complete.")
  /\ pc' = [pc EXCEPT ![Main] = "exit"]
  /\ UNCHANGED <<cfg, val, idx, i, closes, done, wg, out, takeRecvd, sentBag, rcvdBag>>
  /\ UNCHANGED <<buf, fetched, mu, waiting, queue, count, crowd>>

MutexPc == [p \in Procs |-> IF p = Main THEN "incrementAdd" ELSE "none"]

MutexInit ==
  /\ cfg = [prog |-> "mutex"]
  /\ pc = MutexPc
  /\ Fresh

MutexNext ==
  \/ ArithAdd
  \/ ArithGo
  \/ \E kind \in ArithKinds : ArithLock(kind)
  \/ \E kind \in ArithKinds : ArithRead(kind)
  \/ \E kind \in ArithKinds : ArithWrite(kind)
  \/ \E kind \in ArithKinds : ArithPrint(kind)
  \/ \E kind \in ArithKinds : ArithUnlock(kind)
  \/ \E kind \in ArithKinds : ArithDone(kind)
  \/ ArithWait
  \/ ArithComplete

MutexSpec == MutexInit /\ [][MutexNext]_vars

\* the goroutines of the example that have returned
ArithFinished ==
  LET started == IF pc[Main] \in {"incrementAdd", "incrementGo"} THEN i
                 ELSE IF pc[Main] \in {"decrementAdd", "decrementGo"}
                        THEN ArithLast + 1 + i
                 ELSE 2 * (ArithLast + 1)
  IN started - BagSize(crowd)

\* C27: count is read and written only by the one goroutine that holds the
\* lock; once arithmetic.Wait() has returned count is 0, and
\* "Arithmetic complete." is printed only after all twelve have finished.
C27_MutexNoLostUpdate ==
  /\ \A pos \in ArithInside : crowd[pos] = 1 /\ mu = Arith(pos[1])
  /\ Cardinality(ArithInside) <= 1
  /\ pc[Main] \in {"print", "exit"} => count = 0
  /\ printed # <<>> /\ printed[Len(printed)] = "Arithmetic complete."
       => ArithFinished = 2 * (ArithLast + 1)

\* main has printed its line after six increments and six decrements
C27_Witness ==
  /\ pc[Main] = "exit"
  /\ Len(printed) = 2 * (ArithLast + 1) + 1
  /\ \E j \in 1..Len(printed) : printed[j] = "Incrementing: " \o ToString(ArithLast + 1)


\* ------------------------------------- the sayHello and close(begin) examples
\* cfg.prog = "hello" is main { go sayHello() }, and with cfg.join the version
\* fixed with a WaitGroup; cfg.prog = "begin" is the close(begin) example.
\* A started goroutine is a position in crowd: its function, the statement
\* it is at, and the argument i it was started with.
JoinConfigs ==
  {[prog |-> "begin", join |-> TRUE]} \cup {[prog |-> "hello", join |-> b] : b \in BOOLEAN}

GoAt(fn, label, n) == <<fn, label, n>>

HasBegun(n) == ToString(n) \o " has begun"

\* main: wg.Add(1), of the fixed sayHello and of the loop of the begin example
JoinAdd ==
  /\ cfg.prog \in {"hello", "begin"}
  /\ cfg.join
  /\ pc[Main] = "add"
  /\ wg' = wg + 1
  /\ pc' = [pc EXCEPT ![Main] = "go"]
  /\ UNCHANGED <<cfg, val, idx, i, closes, done, out, takeRecvd, sentBag, rcvdBag>>
  /\ UNCHANGED exVars

\* main: go sayHello(), go func() { ... }(); nothing follows it in the
\* unsynchronised main, wg.Wait() follows it in the fixed one
HelloGo ==
  /\ cfg.prog = "hello"
  /\ pc[Main] = "go"
  /\ crowd' = BagAdd(crowd, GoAt("sayHello", "print", 0))
  /\ pc' = [pc EXCEPT ![Main] = IF cfg.join THEN "wait" ELSE "return"]
  /\ UNCHANGED <<cfg, val, idx, i, closes, done, wg, out, takeRecvd, sentBag, rcvdBag>>
  /\ UNCHANGED <<printed, buf, fetched, mu, waiting, queue, count>>

\* sayHello: fmt.Println("hello"); the deferred wg.Done() of the fixed
\* version is the goroutine's next step
HelloPrint ==
  /\ cfg.prog = "hello"
  /\ Copies(GoAt("sayHello", "print", 0)) > 0
  /\ printed' = Append(printed, "hello")
  /\ crowd' = IF cfg.join
                THEN Move(GoAt("sayHello", "print", 0), GoAt("sayHello", "done", 0))
                ELSE BagDel(crowd, GoAt("sayHello", "print", 0))
  /\ UNCHANGED <<cfg, pc, val, idx, i, closes, done, wg, out, takeRecvd, sentBag, rcvdBag>>
  /\ UNCHANGED <<buf, fetched, mu, waiting, queue, count>>

\* main: go func(i int) { ... }(i), then i++ and the loop test i < 5
BeginGo ==
  /\ cfg.prog = "begin"
  /\ pc[Main] = "go"
  /\ crowd' = BagAdd(crowd, GoAt("func", "recv", i))
  /\ i' = i + 1
  /\ pc' = [pc EXCEPT ![Main] = IF i + 1 < NumWaiters THEN "add" ELSE "print"]
  /\ UNCHANGED <<cfg, val, idx, closes, done, wg, out, takeRecvd, sentBag, rcvdBag>>
  /\ UNCHANGED <<printed, buf, fetched, mu, waiting, queue, count>>

\* slip: the receive from begin returns although nothing was sent or closed
BeginRecvEarly(n) ==
  /\ cfg.prog = "begin"
  /\ Copies(GoAt("func", "recv", n)) > 0
  /\ crowd' = Move(GoAt("func", "recv", n), GoAt("func", "print", n))
  /\ UNCHANGED <<cfg, pc, val, idx, i, closes, done, wg, out, takeRecvd, sentBag, rcvdBag>>
  /\ UNCHANGED <<printed, buf, fetched, mu, waiting, queue, count>>

\* func: <-begin; nothing is ever sent on begin, so the receive returns only
\* when the channel is closed
BeginRecv(n) ==
  /\ cfg.prog = "begin"
  /\ Copies(GoAt("func", "recv", n)) > 0
  /\ closed(Begin)
  /\ crowd' = Move(GoAt("func", "recv", n), GoAt("func", "print", n))
  /\ UNCHANGED <<cfg, pc, val, idx, i, closes, done, wg, out, takeRecvd, sentBag, rcvdBag>>
  /\ UNCHANGED <<printed, buf, fetched, mu, waiting, queue, count>>

\* func: fmt.Printf("%v has begun\n", i)
BeginPrintf(n) ==
  /\ cfg.prog = "begin"
  /\ Copies(GoAt("func", "print", n)) > 0
  /\ printed' = Append(printed, HasBegun(n))
  /\ crowd' = Move(GoAt("func", "print", n), GoAt("func", "done", n))
  /\ UNCHANGED <<cfg, pc, val, idx, i, closes, done, wg, out, takeRecvd, sentBag, rcvdBag>>
  /\ UNCHANGED <<buf, fetched, mu, waiting, queue, count>>

\* the goroutine returns: the deferred wg.Done()
JoinDone ==
  /\ cfg.prog \in {"hello", "begin"}
  /\ \E pos \in DOMAIN crowd :
       /\ pos[2] = "done"
       /\ crowd' = BagDel(crowd, pos)
  /\ wg' = wg - 1
  /\ UNCHANGED <<cfg, pc, val, idx, i, closes, done, out, takeRecvd, sentBag, rcvdBag>>
  /\ UNCHANGED <<printed, buf, fetched, mu, waiting, queue, count>>

\* main: fmt.Println("Unblocking goroutines...")
BeginPrintln ==
  /\ cfg.prog = "begin"
  /\ pc[Main] = "print"
  /\ printed' = Append(printed, "Unblocking goroutines...")
  /\ pc' = [pc EXCEPT ![Main] = "close"]
  /\ UNCHANGED <<cfg, val, idx, i, closes, done, wg, out, takeRecvd, sentBag, rcvdBag>>
  /\ UNCHANGED <<buf, fetched, mu, waiting, queue, count, crowd>>

\* main: close(begin)
BeginClose ==
  /\ cfg.prog = "begin"
  /\ pc[Main] = "close"
  /\ closes' = [closes EXCEPT ![Begin] = @ + 1]
  /\ pc' = [pc EXCEPT ![Main] = "wait"]
  /\ UNCHANGED <<cfg, val, idx, i, done, wg, out, takeRecvd, sentBag, rcvdBag>>
  /\ UNCHANGED exVars

\* slip: wg.Wait() returns whatever the counter is
JoinWaitNoJoin ==
  /\ cfg.prog \in {"hello", "begin"}
  /\ pc[Main] = "wait"
  /\ pc' = [pc EXCEPT ![Main] = "return"]
  /\ UNCHANGED <<cfg, val, idx, i, closes, done, wg, out, takeRecvd, sentBag, rcvdBag>>
  /\ UNCHANGED exVars

\* main: wg.Wait() returns when the counter is zero
JoinWait ==
  /\ cfg.prog \in {"hello", "begin"}
  /\ pc[Main] = "wait"
  /\ wg = 0
  /\ pc' = [pc EXCEPT ![Main] = "return"]
  /\ UNCHANGED <<cfg, val, idx, i, closes, done, wg, out, takeRecvd, sentBag, rcvdBag>>
  /\ UNCHANGED exVars

\* main returns: the program ends, and with it every goroutine, scheduled
\* or not
JoinMainReturn ==
  /\ cfg.prog \in {"hello", "begin"}
  /\ pc[Main] = "return"
  /\ pc' = [pc EXCEPT ![Main] = "exit"]
  /\ crowd' = <<>>
  /\ UNCHANGED <<cfg, val, idx, i, closes, done, wg, out, takeRecvd, sentBag, rcvdBag>>
  /\ UNCHANGED <<printed, buf, fetched, mu, waiting, queue, count>>

JoinPc(c) ==
  [p \in Procs |-> IF p = Main THEN (IF c.join THEN "add" ELSE "go") ELSE "none"]

JoinInit ==
  /\ cfg \in JoinConfigs
  /\ pc = JoinPc(cfg)
  /\ Fresh

JoinNext ==
  \/ JoinAdd
  \/ HelloGo
  \/ HelloPrint
  \/ BeginGo
  \/ \E n \in 0..(NumWaiters - 1) : BeginRecv(n)
  \/ \E n \in 0..(NumWaiters - 1) : BeginPrintf(n)
  \/ JoinDone
  \/ BeginPrintln
  \/ BeginClose
  \/ JoinWait
  \/ JoinMainReturn

JoinSpec == JoinInit /\ [][JoinNext]_vars

\* the Go scheduler lets every goroutine that can run take its step
JoinFairness ==
  /\ WF_vars(JoinAdd) /\ WF_vars(HelloGo) /\ WF_vars(HelloPrint)
  /\ WF_vars(BeginGo) /\ WF_vars(JoinDone)
  /\ WF_vars(BeginPrintln) /\ WF_vars(BeginClose)
  /\ WF_vars(JoinWait) /\ WF_vars(JoinMainReturn)
  /\ \A n \in 0..(NumWaiters - 1) : WF_vars(BeginRecv(n)) /\ WF_vars(BeginPrintf(n))

FairJoinSpec == JoinSpec /\ JoinFairness

HasPrinted(line) == \E j \in 1..Len(printed) : printed[j] = line

\* C28: no goroutine prints "<i> has begun" before close(begin), and once
\* begin is closed all five print their line and wg.Wait() returns.
C28_CloseUnblocksAll ==
  /\ [](cfg.prog = "begin" =>
          \A n \in 0..(NumWaiters - 1) : HasPrinted(HasBegun(n)) => closed(Begin))
  /\ (cfg.prog = "begin" /\ closed(Begin))
       ~> (/\ \A n \in 0..(NumWaiters - 1) : HasPrinted(HasBegun(n))
           /\ pc[Main] \in {"return", "exit"})

\* begin is closed while all five goroutines wait in <-begin
C28_Witness ==
  /\ cfg.prog = "begin"
  /\ closed(Begin)
  /\ \A n \in 0..(NumWaiters - 1) : Copies(GoAt("func", "recv", n)) = 1

\* C29: after go sayHello() with no join, both the step that prints hello
\* and the return of main can be taken, and after main has returned first
\* hello is never printed; in the version with the WaitGroup main does not
\* return before hello was printed.
C29_HelloUndeterminedUnlessJoined ==
  cfg.prog = "hello" =>
    /\ (~cfg.join /\ pc[Main] = "return" /\ printed = <<>>)
         => (ENABLED HelloPrint /\ ENABLED JoinMainReturn)
    /\ (~cfg.join /\ pc[Main] = "exit" /\ printed = <<>>) => ~ENABLED HelloPrint
    /\ (cfg.join /\ pc[Main] \in {"return", "exit"}) => printed = <<"hello">>

\* the unsynchronised main has exited and hello was not printed
C29_Witness ==
  /\ cfg.prog = "hello"
  /\ ~cfg.join
  /\ pc[Main] = "exit"
  /\ printed = <<>>


\* ------------------------------------- the channel pipeline run to its end
\* the goroutines main starts for the channel pipeline
ChainProcs == {Src} \cup {Stage(j) : j \in 1..Len(cfg.stages)}

\* a step of the channel pipeline other than the close of done
ChainStep ==
  \/ GeneratorSend
  \/ GeneratorDone
  \/ GeneratorReturn
  \/ \E j \in StageIds : StageSend(j)
  \/ \E j \in StageIds : StageDone(j)
  \/ \E j \in StageIds : StageRangeEnd(j)
  \/ MainRangeEnd

\* every stage has returned, every stream is closed, the range loop is over
ChainComplete ==
  /\ \A p \in ChainProcs : Terminated(p) /\ closed(Out(p))
  /\ pc[Main] = "exit"

\* C30: while done stays open the channel pipeline over a finite generator
\* runs to completion: every stage goroutine terminates, every stream is
\* closed and main's range loop ends; and no state before that is a deadlock.
C30_ChainRunsToCompletion ==
  /\ <>(done \/ ChainComplete)
  /\ []((cfg.prog = "chain" /\ ~done /\ ~ChainComplete) => ENABLED ChainStep)

\* the example pipeline generator -> multiply -> add -> multiply has
\* finished with done open and main has received every value
C30_Witness ==
  /\ cfg.prog = "chain" /\ ~done
  /\ cfg.stages = ExampleStages /\ cfg.seed = ExampleSeed
  /\ ChainComplete
  /\ Len(out) = Len(ExampleSeed)


\* ------------------------------------------------ what take receives
\* C31: in every pipeline program take receives at most num values from
\* valueStream, and once takeStream is closed it receives nothing more,
\* whatever the upstream still has to send.
C31_TakeReceivesAtMostNum ==
  /\ [](Len(takeRecvd) <= cfg.num)
  /\ [][closed(Out(Take)) => takeRecvd' = takeRecvd]_vars

\* take has received num values and closed takeStream with done open, while
\* repeat is at its select with the next value to send
C31_Witness ==
  /\ cfg.prog = "take" /\ cfg.src = "repeat" /\ ~done
  /\ Len(takeRecvd) = cfg.num /\ cfg.num = MaxNum
  /\ closed(Out(Take)) /\ pc[Take] = "exit"
  /\ pc[Src] = "select"


\* ------------------------------------------------- the order fanIn keeps
\* the fan-out over a finite generator, with the history of the merged
\* channels kept
OrderInit ==
  /\ cfg \in [prog : {"fan"}, src : {"generator"}, seed : Seeds, stages : {<<>>},
              num : 1..MaxNum, nf : 1..MaxFinders, hist : {MaxHist}]
  /\ pc = [FanPc(cfg) EXCEPT ![Src] = SrcPc(cfg), ![ToInt] = "none"]
  /\ Fresh

OrderSpec == OrderInit /\ [][FiniteNext]_vars

\* the values logged for channel c in direction dir, in order
RECURSIVE LogOf(_, _, _)
LogOf(log, dir, c) ==
  IF log = <<>> THEN <<>>
  ELSE LET e == Head(log)
       IN IF e[1] = dir /\ e[2] = c
            THEN <<e[3]>> \o LogOf(Tail(log), dir, c)
            ELSE LogOf(Tail(log), dir, c)

\* the values channel c delivered, and those of them that appeared on
\* multiplexedStream
Delivered(c) == LogOf(queue, "in", c)

Multiplexed(c) == LogOf(queue, "out", c)

\* s can be had from t by leaving values out, the others keeping their order
RECURSIVE IsSubseq(_, _)
IsSubseq(s, t) ==
  IF s = <<>> THEN TRUE
  ELSE IF t = <<>> THEN FALSE
  ELSE IF Head(s) = Head(t) THEN IsSubseq(Tail(s), Tail(t))
  ELSE IsSubseq(s, Tail(t))

\* C32: for each channel c merged by fanIn, the values of c that appeared on
\* multiplexedStream are in the order in which c delivered them.
C32_FanInKeepsInputOrder ==
  \A k \in 1..cfg.nf : IsSubseq(Multiplexed(PS(k)), Delivered(PS(k)))

\* with two channels merged, one of them delivered two different values and
\* both have appeared on multiplexedStream
C32_Witness ==
  /\ cfg.nf = MaxFinders /\ cfg.nf > 1
  /\ \E k \in 1..cfg.nf :
       /\ Len(Multiplexed(PS(k))) = 2
       /\ Multiplexed(PS(k))[1] # Multiplexed(PS(k))[2]

====
